---------------------------- MODULE Spec2Model ----------------------------
(***************************************************************************)
(* Manifold geometry engine of pymanopt: the Oblique, Positive and          *)
(* positive-definite manifold classes, the numpy kernels they call, and a   *)
(* consumer that constructs manifolds and calls their operations.           *)
(*                                                                          *)
(* Numbers.  A float64 is modelled by an exact value: a rational n/d, one   *)
(* of the IEEE non-finite values (d = 0: nan, +inf, -inf), or a symbolic    *)
(* term for a result that is not rational (cos 1, sqrt 2, ...).  Rounding   *)
(* is not modelled.  A complex128 is a pair of such values.                 *)
(***************************************************************************)
EXTENDS Integers, Sequences, FiniteSets, TLC

(***************************************************************************)
(* Real scalars                                                            *)
(***************************************************************************)
Abs(i) == IF i < 0 THEN -i ELSE i

Sign(i) == IF i < 0 THEN -1 ELSE IF i > 0 THEN 1 ELSE 0

RECURSIVE GCD(_, _)
GCD(a, b) == IF b = 0 THEN a ELSE GCD(b, a % b)

\* The rational n/d in lowest terms; d = 0 gives nan (n = 0) or +-inf.
Rat(n, d) ==
    IF d = 0 THEN [n |-> Sign(n), d |-> 0, s |-> <<>>]
    ELSE LET g == GCD(Abs(n), Abs(d))
         IN  [n |-> (Sign(d) * n) \div g, d |-> Abs(d) \div g, s |-> <<>>]

Int2R(i) == Rat(i, 1)

NaN == Rat(0, 0)

\* Numerators and denominators stay within MaxInt; a rational that would not
\* is not carried out (Unknown, below).
MaxInt == 1000000000

Fits(a, b) == a = 0 \/ Abs(b) <= MaxInt \div Abs(a)

\* An irrational value.  An atom <<f, q>> is f applied to the rational q
\* (sqrt 2, cos 1, ...): finite and non-zero.  A known irrational value is a
\* non-zero rational multiple n/d of an atom s.  The radicand of a sqrt atom
\* is a square-free integer, so that equal values have equal forms.  Other
\* arithmetic on irrational values is not carried out: its result is
\* Unknown, a value nothing is known about.
Sym(t) == [n |-> 1, d |-> 1, s |-> t]

Unknown == [n |-> 0, d |-> 1, s |-> <<"?">>]

IsSym(x) == x.s # <<>>

IsAtom(x) == IsSym(x) /\ x # Unknown

IsNaN(x) == ~IsSym(x) /\ x.d = 0 /\ x.n = 0

IsInf(x) == ~IsSym(x) /\ x.d = 0 /\ x.n # 0

IsRat(x) == ~IsSym(x) /\ x.d # 0

IsZero(x) == IsRat(x) /\ x.n = 0

IsOne(x) == IsRat(x) /\ x.n = 1 /\ x.d = 1

\* The rational factor of a known irrational value.
Coef(x) == [n |-> x.n, d |-> x.d, s |-> <<>>]

\* The rational c times the atom t; Unknown when c is.
Term(c, t) ==
    IF IsSym(c) THEN Unknown
    ELSE IF c.n = 0 THEN [n |-> 0, d |-> 1, s |-> <<>>]
    ELSE [n |-> c.n, d |-> c.d, s |-> t]

IsSqrt(x) == IsAtom(x) /\ x.s[1] = "sqrt"

\* np.finfo(np.float64).eps = 2 ** -52: a positive value that is kept as an
\* atom, so x + eps is x only for x = 0 and eps / eps is 1.
np_finfo_float64_eps == Sym(<<"eps">>)

np_pi == Sym(<<"pi">>)

RAbs(x) == [x EXCEPT !.n = Abs(x.n)]

Neg(x) == IF x = Unknown THEN Unknown ELSE [x EXCEPT !.n = -x.n]

\* The sum of two rationals (d # 0) whose denominators have the common
\* divisor g, over the denominator a.d b.d / g.
RatAddOver(a, b, g) ==
    IF Fits(a.n, b.d \div g) /\ Fits(b.n, a.d \div g) /\ Fits(a.d \div g, b.d)
         /\ Fits(2, a.n * (b.d \div g)) /\ Fits(2, b.n * (a.d \div g))
    THEN Rat(a.n * (b.d \div g) + b.n * (a.d \div g), (a.d \div g) * b.d)
    ELSE Unknown

\* The sum of two rationals (d # 0).
RatAdd(a, b) == RatAddOver(a, b, GCD(a.d, b.d))

\* The product a b c of three rationals (d # 0).
RatMul3(a, b, c) ==
    IF Fits(a.n, b.n) /\ Fits(a.d, b.d)
         /\ Fits(a.n * b.n, c.n) /\ Fits(a.d * b.d, c.d)
    THEN Rat(a.n * b.n * c.n, a.d * b.d * c.d)
    ELSE Unknown

\* The quotient a / (b c) of three rationals (d # 0).
RatDiv3(a, b, c) ==
    IF Fits(a.n, b.d) /\ Fits(a.d, b.n)
         /\ Fits(a.n * b.d, c.d) /\ Fits(a.d * b.n, c.n)
    THEN Rat(a.n * b.d * c.d, a.d * b.n * c.n)
    ELSE Unknown

\* Equal atoms add on their rational factors; two rationals have the empty
\* atom.
Add(a, b) ==
    IF IsNaN(a) \/ IsNaN(b) THEN NaN
    ELSE IF IsZero(a) THEN b
    ELSE IF IsZero(b) THEN a
    ELSE IF a = Unknown \/ b = Unknown THEN Unknown
    ELSE IF IsInf(a) THEN (IF IsInf(b) /\ b.n # a.n THEN NaN ELSE a)
    ELSE IF IsInf(b) THEN b
    ELSE IF a.s # b.s THEN Unknown
    ELSE Term(RatAdd(Coef(a), Coef(b)), a.s)

Sub(a, b) == IF IsZero(b) THEN a ELSE Add(a, Neg(b))

\* (c sqrt f) (c' sqrt f) = c c' f; a rational times c t is a multiple of t.
Mul(a, b) ==
    IF IsNaN(a) \/ IsNaN(b) THEN NaN
    ELSE IF a = Unknown \/ b = Unknown THEN Unknown
    ELSE IF IsInf(a) \/ IsInf(b) THEN
        (IF IsZero(a) \/ IsZero(b) THEN NaN
         ELSE IF IsSym(a) \/ IsSym(b) THEN Unknown
         ELSE [n |-> Sign(a.n) * Sign(b.n), d |-> 0, s |-> <<>>])
    ELSE IF IsSym(a) /\ IsSym(b) /\ ~(a.s = b.s /\ IsSqrt(a)) THEN Unknown
    ELSE Term(RatMul3(Coef(a), Coef(b),
                     IF IsSym(a) /\ IsSym(b) THEN a.s[2] ELSE [n |-> 1, d |-> 1, s |-> <<>>]),
              IF IsSym(a) /\ IsSym(b) THEN <<>> ELSE IF IsSym(a) THEN a.s ELSE b.s)

\* IEEE division: x/0 is +-inf, 0/0 is nan (numpy warns and carries on).
\* (c t) / (c' t) = c / c'; a / (c sqrt f) = (a / (c f)) sqrt f.
Div(a, b) ==
    IF IsNaN(a) \/ IsNaN(b) THEN NaN
    ELSE IF a = Unknown \/ b = Unknown THEN Unknown
    ELSE IF IsInf(b) THEN
        (IF IsInf(a) THEN NaN ELSE [n |-> 0, d |-> 1, s |-> <<>>])
    ELSE IF IsInf(a) THEN
        (IF IsSym(b) THEN Unknown
         ELSE [n |-> a.n * (IF b.n < 0 THEN -1 ELSE 1), d |-> 0, s |-> <<>>])
    ELSE IF IsZero(b) THEN
        (IF IsSym(a) THEN Unknown ELSE [n |-> Sign(a.n), d |-> 0, s |-> <<>>])
    ELSE IF IsZero(a) THEN a
    ELSE IF IsSym(a) /\ IsSym(b) /\ a.s # b.s THEN Unknown
    ELSE IF ~IsSym(a) /\ IsSym(b) /\ ~IsSqrt(b) THEN Unknown
    ELSE Term(RatDiv3(Coef(a), Coef(b),
                     IF ~IsSym(a) /\ IsSym(b) THEN b.s[2] ELSE [n |-> 1, d |-> 1, s |-> <<>>]),
              IF IsSym(a) /\ IsSym(b) THEN <<>> ELSE IF IsSym(a) THEN a.s ELSE b.s)

\* a > b on floats: false when either side is nan.  An irrational value has
\* no decided order here and compares false.
Gt(a, b) ==
    IF IsSym(a) \/ IsSym(b) \/ IsNaN(a) \/ IsNaN(b) THEN FALSE
    ELSE IF IsInf(a) THEN a.n > 0 /\ ~(IsInf(b) /\ b.n > 0)
    ELSE IF IsInf(b) THEN b.n < 0
    ELSE Fits(a.n, b.d) /\ Fits(b.n, a.d) /\ a.n * b.d > b.n * a.d

Lt(a, b) == Gt(b, a)

RECURSIVE IPow(_, _)
IPow(b, k) == IF k = 0 THEN 1 ELSE b * IPow(b, k - 1)

\* r ** k <= i, for r >= 1 and i >= 0, without forming r ** k.
RECURSIVE PowLE(_, _, _)
PowLE(r, k, i) == IF k = 0 THEN 1 <= i ELSE PowLE(r, k - 1, i \div r)

\* The largest r in lo..hi with r ** k <= i (lo ** k <= i).
RECURSIVE FloorRoot(_, _, _, _)
FloorRoot(i, k, lo, hi) ==
    IF lo >= hi THEN lo
    ELSE LET mid == (lo + hi + 1) \div 2
         IN  IF PowLE(mid, k, i) THEN FloorRoot(i, k, mid, hi)
             ELSE FloorRoot(i, k, lo, mid - 1)

\* The integer k-th root of a perfect k-th power, -1 otherwise.
IRoot(i, k) ==
    IF i < 0 THEN -1
    ELSE IF i = 0 THEN 0
    ELSE LET r == FloorRoot(i, k, 1, i)
         IN  IF IPow(r, k) = i THEN r ELSE -1

\* Radicands up to MaxRadicand are reduced to their square-free part.
MaxRadicand == 40000

\* The divisors s >= 1 of N, N >= 1, whose square divides N.
SquareDivisors(N) == {s \in 1..FloorRoot(N, 2, 1, N) : N % (s * s) = 0}

\* The largest s >= 1 whose square divides N.
SquarePart(N) == CHOOSE s \in SquareDivisors(N) : \A t \in SquareDivisors(N) : t <= s

\* sqrt(n/d) for n/d in lowest terms, given the square parts sn of n and
\* sd of d: (sn sd / d) sqrt(f) with f = (n / sn^2) (d / sd^2) square-free.
SqrtTerm(n, d, sn, sd) ==
    Term(Rat(sn * sd, d), <<"sqrt", Int2R((n \div (sn * sn)) * (d \div (sd * sd)))>>)

\* x ** (1/k) for a real x and an integer k >= 1.
Root(x, k) ==
    IF IsNaN(x) THEN NaN
    ELSE IF k = 1 THEN x
    ELSE IF IsSym(x) THEN Unknown
    ELSE IF IsInf(x) THEN (IF x.n > 0 THEN x ELSE NaN)
    ELSE IF x.n < 0 THEN NaN
    ELSE IF IRoot(x.n, k) >= 0 /\ IRoot(x.d, k) >= 0
         THEN Rat(IRoot(x.n, k), IRoot(x.d, k))
    ELSE IF k = 2 /\ x.n <= MaxRadicand /\ x.d <= MaxRadicand
         THEN SqrtTerm(x.n, x.d, SquarePart(x.n), SquarePart(x.d))
    ELSE Unknown

np_sqrt_r(x) == Root(x, 2)

np_cos_r(x) ==
    IF IsSym(x) THEN Unknown
    ELSE IF x.d = 0 THEN NaN
    ELSE IF x.n = 0 THEN Int2R(1)
    ELSE Sym(<<"cos", RAbs(x)>>)

\* numpy's normalised sinc: sin(pi x)/(pi x), and exactly 1 at x = 0.
np_sinc_r(x) ==
    IF IsSym(x) THEN Unknown
    ELSE IF x.d = 0 THEN (IF x.n = 0 THEN NaN ELSE Int2R(0))
    ELSE IF x.n = 0 THEN Int2R(1)
    ELSE IF x.d = 1 THEN Int2R(0)
    ELSE Sym(<<"sinc", RAbs(x)>>)

\* log of a float: -inf at 0 and nan below (numpy warns and carries on).
np_log_r(x) ==
    IF IsSym(x) THEN Unknown
    ELSE IF x.d = 0 THEN (IF x.n > 0 THEN x ELSE NaN)
    ELSE IF x.n = 0 THEN [n |-> -1, d |-> 0, s |-> <<>>]
    ELSE IF x.n < 0 THEN NaN
    ELSE IF IsOne(x) THEN Int2R(0)
    ELSE Sym(<<"log", x>>)

\* exp(i log q) is carried out as the rational q ** i for an integer i up to
\* MaxPower in size and q = n/d with n, d <= MaxBase.
MaxPower == 3

MaxBase == 100

\* q ** i for a rational q > 0 and an integer i # 0.
RatPow(q, i) ==
    IF i > 0 THEN Rat(IPow(q.n, i), IPow(q.d, i)) ELSE Rat(IPow(q.d, -i), IPow(q.n, -i))

\* exp of a float; exp(i log q) is q ** i (up to rounding).
np_exp_r(x) ==
    IF IsAtom(x) /\ x.s[1] = "log" /\ x.d = 1 /\ Abs(x.n) <= MaxPower
         /\ x.s[2].n <= MaxBase /\ x.s[2].d <= MaxBase
    THEN RatPow(x.s[2], x.n)
    ELSE IF IsSym(x) THEN Unknown
    ELSE IF x.d = 0 THEN (IF x.n = 0 THEN NaN ELSE IF x.n > 0 THEN x ELSE Int2R(0))
    ELSE IF x.n = 0 THEN Int2R(1)
    ELSE Sym(<<"exp", x>>)

\* arccos of a float: nan outside [-1, 1] (numpy warns and carries on).
np_arccos_r(x) ==
    IF IsSym(x) THEN Unknown
    ELSE IF x.d = 0 THEN NaN
    ELSE IF Gt(x, Int2R(1)) \/ Lt(x, Int2R(-1)) THEN NaN
    ELSE IF IsOne(x) THEN Int2R(0)
    ELSE Sym(<<"arccos", x>>)

(***************************************************************************)
(* Complex scalars                                                         *)
(***************************************************************************)
Cx(re, im) == [re |-> re, im |-> im]

R2C(x) == Cx(x, Int2R(0))

I2C(i) == R2C(Int2R(i))

\* The complex number (a/d) + (b/d) i.
QC(a, b, d) == Cx(Rat(a, d), Rat(b, d))

CAdd(a, b) == Cx(Add(a.re, b.re), Add(a.im, b.im))

CSub(a, b) == Cx(Sub(a.re, b.re), Sub(a.im, b.im))

CNeg(a) == Cx(Neg(a.re), Neg(a.im))

CConj(a) == Cx(a.re, Neg(a.im))

IsReal(a) == IsZero(a.im)

CMul(a, b) ==
    IF IsReal(a) /\ IsReal(b) THEN R2C(Mul(a.re, b.re))
    ELSE Cx(Sub(Mul(a.re, b.re), Mul(a.im, b.im)),
            Add(Mul(a.re, b.im), Mul(a.im, b.re)))

\* |z|^2 as a real.
AbsSq(c) == Add(Mul(c.re, c.re), Mul(c.im, c.im))

\* The complex z divided by the real x.
CDivReal(z, x) == Cx(Div(z.re, x), Div(z.im, x))

CDiv(a, b) ==
    IF IsReal(b) THEN
        (IF IsReal(a) THEN R2C(Div(a.re, b.re)) ELSE CDivReal(a, b.re))
    ELSE CDivReal(CMul(a, CConj(b)), AbsSq(b))

CIsZero(a) == IsZero(a.re) /\ IsZero(a.im)

\* z ** (1/k): the real root of a real z >= 0; not carried out otherwise.
CRoot(z, k) ==
    IF IsReal(z) /\ ~(IsRat(z.re) /\ z.re.n < 0) THEN R2C(Root(z.re, k))
    ELSE IF k = 1 THEN z
    ELSE Cx(Unknown, Unknown)

\* Whether the value of z is known: no part of it is Unknown.
CKnown(z) == z.re # Unknown /\ z.im # Unknown

\* The known reals x and y are known to be different numbers.  Two multiples
\* of different atoms are told apart when both atoms are square roots, or
\* both are the same injective function of different rationals.
RDiffer(x, y) ==
    IF ~IsSym(x) \/ ~IsSym(y) THEN x # y
    ELSE IF x.s = y.s THEN x # y
    ELSE \/ IsSqrt(x) /\ IsSqrt(y)
         \/ /\ x.s[1] = y.s[1]
            /\ x.s[1] \in {"exp", "log", "cos", "arccos"}
            /\ Coef(x) = Coef(y)

CDiffer(a, b) ==
    /\ CKnown(a) /\ CKnown(b)
    /\ RDiffer(a.re, b.re) \/ RDiffer(a.im, b.im)

(***************************************************************************)
(* Arrays.  A numpy array is its shape, its elements in row-major order,    *)
(* and its dtype.  id is the identity of the array object: 1, 2, 3 for the  *)
(* arrays the caller passes in, 0 for an array created during the call.     *)
(* exc # "" stands for an exception raised instead of a value; every        *)
(* operation passes on the first exception among its operands.              *)
(***************************************************************************)
Arr(shape, data, dtype) ==
    [id |-> 0, shape |-> shape, data |-> data, dtype |-> dtype, exc |-> ""]

Raise(e) ==
    [id |-> 0, shape |-> <<>>, data |-> <<>>, dtype |-> "float64", exc |-> e]

Raised(a) == a.exc # ""

\* The caller's array object number i holding the value a.
Obj(i, a) == [a EXCEPT !.id = i]

\* Every element of a is a known value.
Known(a) == \A f \in 1..Len(a.data) : CKnown(a.data[f])

\* numpy's array_equal: same shape and same elements, whatever the objects.
\* Elements whose value is not known are not known to be equal.
ArrayEqual(a, b) ==
    /\ ~Raised(a) /\ ~Raised(b)
    /\ a.shape = b.shape /\ a.data = b.data
    /\ Known(a)

\* a and b are known to differ: in shape, or in an element known on both sides.
ArrayDiffer(a, b) ==
    /\ ~Raised(a) /\ ~Raised(b)
    /\ \/ a.shape # b.shape
       \/ \E f \in 1..Len(a.data) : CDiffer(a.data[f], b.data[f])

Join(d1, d2) == IF "complex128" \in {d1, d2} THEN "complex128" ELSE "float64"

RECURSIVE Prod(_)
Prod(s) == IF s = <<>> THEN 1 ELSE Head(s) * Prod(Tail(s))

Stride(shape, j) == Prod(SubSeq(shape, j + 1, Len(shape)))

\* The 0-based multi-index of the 1-based flat position f.
Unravel(shape, f) ==
    [j \in 1..Len(shape) |-> ((f - 1) \div Stride(shape, j)) % shape[j]]

RECURSIVE RavelFrom(_, _, _)
RavelFrom(shape, idx, j) ==
    IF j > Len(shape) THEN 0
    ELSE idx[j] * Stride(shape, j) + RavelFrom(shape, idx, j + 1)

Ravel(shape, idx) == 1 + RavelFrom(shape, idx, 1)

At(a, idx) == a.data[Ravel(a.shape, idx)]

Max(i, j) == IF i > j THEN i ELSE j

\* shape padded on the left with 1s to rank r.
PadShape(shape, r) == [j \in 1..(r - Len(shape)) |-> 1] \o shape

BroadcastOk(s1, s2) ==
    LET r == Max(Len(s1), Len(s2))
        p1 == PadShape(s1, r)
        p2 == PadShape(s2, r)
    IN  \A j \in 1..r : p1[j] = p2[j] \/ p1[j] = 1 \/ p2[j] = 1

BroadcastShape(s1, s2) ==
    LET r == Max(Len(s1), Len(s2))
        p1 == PadShape(s1, r)
        p2 == PadShape(s2, r)
    IN  [j \in 1..r |-> IF p1[j] = 1 THEN p2[j] ELSE p1[j]]

\* The element of a that the index idx of the broadcast result reads.
BAt(a, idx) ==
    LET off == Len(idx) - Len(a.shape)
    IN  At(a, [j \in 1..Len(a.shape) |->
                  IF a.shape[j] = 1 THEN 0 ELSE idx[off + j]])

\* An elementwise binary operation with numpy broadcasting.
Map2(Op(_, _), a, b) ==
    IF Raised(a) THEN Raise(a.exc)
    ELSE IF Raised(b) THEN Raise(b.exc)
    ELSE IF ~BroadcastOk(a.shape, b.shape) THEN Raise("ValueError")
    ELSE LET sh == BroadcastShape(a.shape, b.shape)
         IN  Arr(sh,
                 [f \in 1..Prod(sh) |->
                     Op(BAt(a, Unravel(sh, f)), BAt(b, Unravel(sh, f)))],
                 Join(a.dtype, b.dtype))

Map1(Op(_), a) ==
    IF Raised(a) THEN Raise(a.exc)
    ELSE Arr(a.shape, [f \in 1..Len(a.data) |-> Op(a.data[f])], a.dtype)

np_add(a, b) == Map2(CAdd, a, b)

np_sub(a, b) == Map2(CSub, a, b)

np_mul(a, b) == Map2(CMul, a, b)

np_div(a, b) == Map2(CDiv, a, b)

\* A Python number as a 0-dimensional operand.
Scalar(c) == Arr(<<>>, <<c>>, "float64")

RECURSIVE CSum(_)
CSum(s) ==
    IF s = <<>> THEN I2C(0)
    ELSE IF Len(s) = 1 THEN s[1]
    ELSE CAdd(CSum(SubSeq(s, 1, Len(s) \div 2)),
              CSum(SubSeq(s, (Len(s) \div 2) + 1, Len(s))))

\* a.sum(0): the sum along the first axis.
sum0(a) ==
    IF Raised(a) THEN Raise(a.exc)
    ELSE LET sh == Tail(a.shape)
         IN  Arr(sh,
                 [f \in 1..Prod(sh) |->
                     CSum([i \in 1..a.shape[1] |->
                              At(a, <<i - 1>> \o Unravel(sh, f))])],
                 a.dtype)

\* a[np.newaxis, :]
newaxis(a) ==
    IF Raised(a) THEN Raise(a.exc) ELSE [a EXCEPT !.id = 0, !.shape = <<1>> \o a.shape]

\* a.reshape(shape)
reshape(a, shape) ==
    IF Raised(a) THEN Raise(a.exc)
    ELSE IF Prod(shape) # Len(a.data) THEN Raise("ValueError")
    ELSE [a EXCEPT !.id = 0, !.shape = shape]

\* a[0]: the first item along the first axis.
item0(a) ==
    IF Raised(a) THEN Raise(a.exc)
    ELSE Arr(Tail(a.shape), SubSeq(a.data, 1, Prod(Tail(a.shape))), a.dtype)

\* np.zeros(shape, dtype=float, order="C") called with the positional
\* arguments args: the first is the shape, a second would be the dtype and a
\* third the order, and an integer is neither.
np_zeros(args, dtype) ==
    IF Len(args) # 1 THEN Raise("TypeError")
    ELSE Arr(args[1], [f \in 1..Prod(args[1]) |-> I2C(0)], dtype)

RealOnly(Op(_), c) == R2C(Op(c.re))

np_cos(a) == Map1(LAMBDA c : RealOnly(np_cos_r, c), a)

np_sinc(a) == Map1(LAMBDA c : RealOnly(np_sinc_r, c), a)

np_sqrt(a) == Map1(LAMBDA c : RealOnly(np_sqrt_r, c), a)

np_exp(a) == Map1(LAMBDA c : RealOnly(np_exp_r, c), a)

np_log(a) == Map1(LAMBDA c : RealOnly(np_log_r, c), a)

np_arccos(a) == Map1(LAMBDA c : RealOnly(np_arccos_r, c), a)

np_real(a) ==
    IF Raised(a) THEN Raise(a.exc)
    ELSE Arr(a.shape, [f \in 1..Len(a.data) |-> R2C(a.data[f].re)], "float64")

RECURSIVE RSum(_)
RSum(s) == IF s = <<>> THEN Int2R(0) ELSE Add(Head(s), RSum(Tail(s)))

\* np.linalg.norm(a): the 2-norm of the flattened array.
np_linalg_norm(a) ==
    IF Raised(a) THEN Raise(a.exc)
    ELSE Scalar(R2C(np_sqrt_r(RSum([f \in 1..Len(a.data) |-> AbsSq(a.data[f])]))))

(***************************************************************************)
(* Linear algebra on the last two axes, batched over the leading ones.      *)
(* A single matrix is a sequence of rows.                                   *)
(***************************************************************************)
Rank2(a) == Len(a.shape) >= 2

Rows(a) == a.shape[Len(a.shape) - 1]

Cols(a) == a.shape[Len(a.shape)]

Batch(a) == SubSeq(a.shape, 1, Len(a.shape) - 2)

\* The b-th matrix (0-based) of the stack a.
Mat(a, b) ==
    [i \in 1..Rows(a) |->
        [j \in 1..Cols(a) |-> a.data[b * Rows(a) * Cols(a) + (i - 1) * Cols(a) + j]]]

\* The stack of shape batch \o <<r, c>> whose b-th matrix is M(b).
Stack(batch, r, c, M(_), dtype) ==
    Arr(batch \o <<r, c>>,
        [f \in 1..(Prod(batch) * r * c) |->
            M((f - 1) \div (r * c))[(((f - 1) % (r * c)) \div c) + 1][((f - 1) % c) + 1]],
        dtype)

Drop(seq, i) == [j \in 1..(Len(seq) - 1) |-> IF j < i THEN seq[j] ELSE seq[j + 1]]

Minor(M, i, j) == [r \in 1..(Len(M) - 1) |-> Drop(Drop(M, i)[r], j)]

RECURSIVE Det(_)
Det(M) ==
    IF Len(M) = 0 THEN I2C(1)
    ELSE IF Len(M) = 1 THEN M[1][1]
    ELSE CSum([j \in 1..Len(M) |->
                 CMul(CMul(I2C(IF j % 2 = 1 THEN 1 ELSE -1), M[1][j]),
                      Det(Minor(M, 1, j)))])

Inverse(M) ==
    LET dt == Det(M)
    IN  [i \in 1..Len(M) |->
            [j \in 1..Len(M) |->
                CDiv(CMul(I2C(IF (i + j) % 2 = 0 THEN 1 ELSE -1), Det(Minor(M, j, i))), dt)]]

MatMul(A, B) ==
    [i \in 1..Len(A) |->
        [j \in 1..Len(B[1]) |->
            CSum([l \in 1..Len(B) |-> CMul(A[i][l], B[l][j])])]]

Transp(M) == [i \in 1..Len(M[1]) |-> [j \in 1..Len(M) |-> M[j][i]]]

HConj(M) == [i \in 1..Len(M[1]) |-> [j \in 1..Len(M) |-> CConj(M[j][i])]]

Eye(n) == [i \in 1..n |-> [j \in 1..n |-> I2C(IF i = j THEN 1 ELSE 0)]]

\* The index of a's matrix that matrix b of a stack of shape batch reads.
BMat(a, batch, b) ==
    LET idx == Unravel(batch, b + 1)
        off == Len(batch) - Len(Batch(a))
    IN  Mat(a, Ravel(Batch(a), [j \in 1..Len(Batch(a)) |->
                 IF Batch(a)[j] = 1 THEN 0 ELSE idx[off + j]]) - 1)

\* a @ b
matmul(a, b) ==
    IF Raised(a) THEN Raise(a.exc)
    ELSE IF Raised(b) THEN Raise(b.exc)
    ELSE IF ~Rank2(a) \/ ~Rank2(b) \/ Cols(a) # Rows(b)
            \/ ~BroadcastOk(Batch(a), Batch(b)) THEN Raise("ValueError")
    ELSE LET batch == BroadcastShape(Batch(a), Batch(b))
         IN  Stack(batch, Rows(a), Cols(b),
                   LAMBDA i : MatMul(BMat(a, batch, i), BMat(b, batch, i)),
                   Join(a.dtype, b.dtype))

\* np.linalg.solve(a, b) for stacks of square systems with matrix right-hand
\* sides: LinAlgError when a matrix of a is singular.
np_linalg_solve(a, b) ==
    IF Raised(a) THEN Raise(a.exc)
    ELSE IF Raised(b) THEN Raise(b.exc)
    ELSE IF ~Rank2(a) \/ ~Rank2(b) \/ Rows(a) # Cols(a) THEN Raise("LinAlgError")
    ELSE IF Rows(b) # Rows(a) \/ ~BroadcastOk(Batch(a), Batch(b)) THEN Raise("ValueError")
    ELSE LET batch == BroadcastShape(Batch(a), Batch(b))
         IN  IF \E i \in 0..(Prod(Batch(a)) - 1) : CIsZero(Det(Mat(a, i)))
             THEN Raise("LinAlgError")
             ELSE Stack(batch, Rows(b), Cols(b),
                        LAMBDA i : MatMul(Inverse(BMat(a, batch, i)), BMat(b, batch, i)),
                        Join(a.dtype, b.dtype))

\* np.linalg.det(a): one determinant per matrix of the stack.
np_linalg_det(a) ==
    IF Raised(a) THEN Raise(a.exc)
    ELSE IF ~Rank2(a) \/ Rows(a) # Cols(a) THEN Raise("LinAlgError")
    ELSE Arr(Batch(a), [f \in 1..Prod(Batch(a)) |-> Det(Mat(a, f - 1))], a.dtype)

\* The entry (i, j), j <= i, of the lower Cholesky factor of M, computed from
\* the lower triangle and the real part of the diagonal of M, as LAPACK does.
RECURSIVE CholEntry(_, _, _)
CholEntry(M, i, j) ==
    IF i = j
    THEN R2C(np_sqrt_r(CSub(M[j][j], CSum([l \in 1..(j - 1) |->
                                   R2C(AbsSq(CholEntry(M, j, l)))])).re))
    ELSE CDiv(CSub(M[i][j], CSum([l \in 1..(j - 1) |->
                  CMul(CholEntry(M, i, l), CConj(CholEntry(M, j, l)))])),
              CholEntry(M, j, j))

Cholesky(M) ==
    [i \in 1..Len(M) |->
        [j \in 1..Len(M) |-> IF j <= i THEN CholEntry(M, i, j) ELSE I2C(0)]]

\* The factorisation stops at a pivot that is not positive (or is nan): the
\* square root of the pivot is then 0 or nan.
CholeskyFails(M) ==
    \E j \in 1..Len(M) :
        IsNaN(CholEntry(M, j, j).re) \/ IsZero(CholEntry(M, j, j).re)

\* np.linalg.cholesky(a): LinAlgError when a matrix of the stack has a pivot
\* that is not positive.  Whether a is symmetric (Hermitian) is not checked:
\* only its lower triangle is read.
np_linalg_cholesky(a) ==
    IF Raised(a) THEN Raise(a.exc)
    ELSE IF ~Rank2(a) \/ Rows(a) # Cols(a) THEN Raise("LinAlgError")
    ELSE IF \E i \in 0..(Prod(Batch(a)) - 1) : CholeskyFails(Mat(a, i))
         THEN Raise("LinAlgError")
    ELSE Stack(Batch(a), Rows(a), Cols(a), LAMBDA i : Cholesky(Mat(a, i)), a.dtype)

\* np.linalg.inv(a): LinAlgError when a matrix of the stack is singular.
np_linalg_inv(a) ==
    IF Raised(a) THEN Raise(a.exc)
    ELSE IF ~Rank2(a) \/ Rows(a) # Cols(a) THEN Raise("LinAlgError")
    ELSE IF \E i \in 0..(Prod(Batch(a)) - 1) : CIsZero(Det(Mat(a, i)))
         THEN Raise("LinAlgError")
    ELSE Stack(Batch(a), Rows(a), Cols(a), LAMBDA i : Inverse(Mat(a, i)), a.dtype)

\* np.trace(a, axis1=-2, axis2=-1)
np_trace(a) ==
    IF Raised(a) THEN Raise(a.exc)
    ELSE IF ~Rank2(a) THEN Raise("ValueError")
    ELSE Arr(Batch(a),
             [f \in 1..Prod(Batch(a)) |->
                 CSum([i \in 1..(IF Rows(a) < Cols(a) THEN Rows(a) ELSE Cols(a)) |->
                          Mat(a, f - 1)[i][i]])],
             a.dtype)

\* a ** (1 / k), elementwise.
root(a, k) == Map1(LAMBDA c : CRoot(c, k), a)

(***************************************************************************)
(* pymanopt.tools.multi: the batched helpers the manifolds import.          *)
(***************************************************************************)
PerMatrix(Op(_), a) ==
    IF Raised(a) THEN Raise(a.exc)
    ELSE IF ~Rank2(a) THEN Raise("ValueError")
    ELSE Stack(Batch(a), Cols(a), Rows(a), LAMBDA i : Op(Mat(a, i)), a.dtype)

multitransp(a) == PerMatrix(Transp, a)

multihconj(a) == PerMatrix(HConj, a)

Half == Scalar(QC(1, 0, 2))

multisym(a) == np_mul(Half, np_add(a, multitransp(a)))

multiherm(a) == np_mul(Half, np_add(a, multihconj(a)))

IsDiagonal(M) == \A i \in 1..Len(M) : \A j \in 1..Len(M) : i # j => CIsZero(M[i][j])

\* The matrix exponential of one square matrix: carried out for a real
\* diagonal matrix (so expm(0) = I), Unknown otherwise.
Expm(M) ==
    IF IsDiagonal(M) /\ \A i \in 1..Len(M) : IsReal(M[i][i])
    THEN [i \in 1..Len(M) |->
            [j \in 1..Len(M) |-> IF i = j THEN R2C(np_exp_r(M[i][i].re)) ELSE I2C(0)]]
    ELSE [i \in 1..Len(M) |-> [j \in 1..Len(M) |-> Cx(Unknown, Unknown)]]

multiexpm(a, symmetric) == PerMatrix(Expm, a)

\* The matrix logarithm of one Hermitian matrix by eigendecomposition,
\* V diag(log w) V^H: carried out for a real diagonal matrix (V = I, w the
\* diagonal), Unknown otherwise.  The logarithm of an eigenvalue that is not
\* positive is nan or -inf, and no error.
Logm(M) ==
    IF IsDiagonal(M) /\ \A i \in 1..Len(M) : IsReal(M[i][i])
    THEN MatMul(Eye(Len(M)),
                [l \in 1..Len(M) |->
                    [j \in 1..Len(M) |->
                        CMul(R2C(np_log_r(M[l][l].re)), CConj(Eye(Len(M))[j][l]))]])
    ELSE [i \in 1..Len(M) |-> [j \in 1..Len(M) |-> Cx(Unknown, Unknown)]]

multilogm(a, positive_definite) == PerMatrix(Logm, a)

\* The orthonormal columns Gram-Schmidt gives for the columns j.. of M, after
\* the columns qs: the Q factor of the QR decomposition whose R has a real
\* positive diagonal.  Columns are sequences.
VDot(u, v) == CSum([i \in 1..Len(u) |-> CMul(CConj(u[i]), v[i])])

\* The column c less its components along the orthonormal columns qs.
Residual(c, qs) ==
    [i \in 1..Len(c) |->
        CSub(c[i], CSum([l \in 1..Len(qs) |-> CMul(VDot(qs[l], c), qs[l][i])]))]

\* The column v divided by the real nv.
Scaled(v, nv) == [i \in 1..Len(v) |-> CDiv(v[i], nv)]

\* The column v scaled to unit 2-norm.
Normalized(v) == Scaled(v, R2C(np_sqrt_r(RSum([i \in 1..Len(v) |-> AbsSq(v[i])]))))

RECURSIVE GramSchmidt(_, _)
GramSchmidt(cols, qs) ==
    IF cols = <<>> THEN qs
    ELSE GramSchmidt(Tail(cols), Append(qs, Normalized(Residual(Head(cols), qs))))

QFactor(M) == Transp(GramSchmidt(Transp(M), <<>>))

\* multiqr(a)[0]
multiqr_q(a) == PerMatrix(QFactor, a)

\* np.tensordot(a, b, axes=a.ndim): the sum of all elementwise products.
np_tensordot(a, b) ==
    IF Raised(a) THEN Raise(a.exc)
    ELSE IF Raised(b) THEN Raise(b.exc)
    ELSE IF a.shape # b.shape THEN Raise("ValueError")
    ELSE Arr(<<>>, <<CSum([f \in 1..Len(a.data) |-> CMul(a.data[f], b.data[f])])>>,
             Join(a.dtype, b.dtype))

\* np.linalg.norm(a, axis=0): the 2-norm of each column.
np_linalg_norm_axis0(a) ==
    np_sqrt(sum0(Map1(LAMBDA c : R2C(AbsSq(c)), a)))

(***************************************************************************)
(* numpy.random: the module-level generator shared by every caller.  Its    *)
(* state is the number of variates drawn so far; the variate at a position  *)
(* is fixed by the seed.                                                    *)
(***************************************************************************)
NormalAt(p) == <<Rat(3, 1), Rat(-12, 1), Rat(4, 1), Rat(5, 1), Rat(1, 1)>>[(p % 5) + 1]

UniformAt(p) == <<Rat(0, 1), Rat(1, 2), Rat(1, 4)>>[(p % 3) + 1]

\* np.random.normal(size=shape) and np.random.randn(*shape) with the
\* generator at position rng.
np_random_normal(rng, shape) ==
    Arr(shape, [f \in 1..Prod(shape) |-> R2C(NormalAt(rng + f - 1))], "float64")

np_random_uniform(rng, shape) ==
    Arr(shape, [f \in 1..Prod(shape) |-> R2C(UniformAt(rng + f - 1))], "float64")

\* The imaginary unit 1j.
ImagUnit == Arr(<<>>, <<QC(0, 1, 1)>>, "complex128")

(***************************************************************************)
(* Python integers.  An int has no fixed width: it is the little-endian     *)
(* sequence of its binary digits, without a leading zero digit (0 is <<>>). *)
(* Only ints that are not negative occur.                                   *)
(***************************************************************************)
RECURSIVE PyInt(_)
PyInt(i) == IF i = 0 THEN <<>> ELSE <<i % 2>> \o PyInt(i \div 2)

\* The value of an int of fewer than 31 digits.
RECURSIVE PyIntValue(_)
PyIntValue(b) == IF b = <<>> THEN 0 ELSE b[1] + 2 * PyIntValue(Tail(b))

\* The digit of weight 2^(i-1), 0 beyond the last digit.
Digit(b, i) == IF i >= 1 /\ i <= Len(b) THEN b[i] ELSE 0

RECURSIVE Trim(_)
Trim(b) ==
    IF b = <<>> \/ b[Len(b)] = 1 THEN b ELSE Trim(SubSeq(b, 1, Len(b) - 1))

\* The int that is the sum of cols[i] * 2^(i-1) and c * 2^0: the columns are
\* reduced to digits from the lowest up, carrying (or borrowing) into the next.
RECURSIVE Carry(_, _)
Carry(cols, c) ==
    IF cols = <<>> THEN PyInt(c)
    ELSE <<(cols[1] + c) % 2>> \o Carry(Tail(cols), (cols[1] + c) \div 2)

\* a + b
PyAdd(a, b) ==
    Trim(Carry([i \in 1..Max(Len(a), Len(b)) |-> Digit(a, i) + Digit(b, i)], 0))

\* a - b, for a >= b.
PySub(a, b) ==
    Trim(Carry([i \in 1..Len(a) |-> a[i] - Digit(b, i)], 0))

\* a * b: column j collects the products of digits whose weights multiply
\* to 2^(j-1).
PyMul(a, b) ==
    IF a = <<>> \/ b = <<>> THEN <<>>
    ELSE Trim(Carry([j \in 1..(Len(a) + Len(b) - 1) |->
                        Cardinality({i \in 1..Len(a) :
                                        a[i] = 1 /\ Digit(b, j - i + 1) = 1})], 0))

\* Significant binary digits of a float64.
MantissaDigits == 53

\* The int of at most MantissaDigits significant digits nearest to b, ties
\* to the one whose last kept digit is 0: b as a float64 holds it.
RoundToDouble(b) ==
    IF Len(b) <= MantissaDigits THEN b
    ELSE LET sh == Len(b) - MantissaDigits
             kept == SubSeq(b, sh + 1, Len(b))
             above == b[sh] = 1 /\ \E i \in 1..(sh - 1) : b[i] = 1
             tie == b[sh] = 1 /\ \A i \in 1..(sh - 1) : b[i] = 0
             up == above \/ (tie /\ kept[1] = 1)
         IN  [i \in 1..sh |-> 0] \o (IF up THEN PyAdd(kept, <<1>>) ELSE kept)

\* a / 2 for an int a: true division gives the float64 nearest the quotient.
\* The float is held as the int twice its value.
PyTrueDivBy2(a) == [twice |-> RoundToDouble(a)]

\* int(x) for a float x that is not negative: the fraction is dropped.
PyIntOfFloat(x) == IF x.twice = <<>> THEN <<>> ELSE Tail(x.twice)

(***************************************************************************)
(* pymanopt.manifolds.manifold: the base classes.  A manifold object is a   *)
(* record of its attributes; an attribute a class does not set is 0 or "".  *)
(***************************************************************************)
NewObject(cls) ==
    [cls |-> cls, m |-> 0, n |-> 0, k |-> 0, transport |-> "",
     name |-> <<>>, dimension |-> PyInt(0), exc |-> ""]

\* Manifold.__init__(name, dimension): the descriptor's name and dimension.
Manifold_init(self, name, dimension) ==
    [self EXCEPT !.name = name, !.dimension = dimension]

\* The dim property: reads the dimension given at construction.
Manifold_dim(self) == self.dimension

\* self.dim = value.  dim is a property of the base class; the assignment
\* stores value when the property has a setter and raises AttributeError
\* when it has none.
Manifold_set_dim(self, value, has_setter) ==
    IF has_setter THEN [self EXCEPT !.dimension = value]
    ELSE [self EXCEPT !.exc = "AttributeError"]

\* The decorator _raise_not_implemented_error: the decorated method raises
\* NotImplementedError whatever it is called with, and its body never runs.
raise_not_implemented_error(body) == Raise("NotImplementedError")

\* What a method body that ends without a return statement returns.
None == [id |-> 0, shape |-> <<>>, data |-> <<>>, dtype |-> "NoneType", exc |-> ""]

(***************************************************************************)
(* class Oblique(EuclideanEmbeddedSubmanifold)                             *)
(***************************************************************************)
Oblique_init(m, n) ==
    Manifold_init([NewObject("Oblique") EXCEPT !.m = m, !.n = n],
                  <<"Oblique manifold OB", m, n>>, PyMul(PyInt(m - 1), PyInt(n)))

Oblique_norm(self, point, tangent_vector) == np_linalg_norm(tangent_vector)

\* XY[XY > 1] = 1
SetOneWhereGtOne(XY) ==
    IF Raised(XY) THEN XY
    ELSE [XY EXCEPT !.data =
             [f \in 1..Len(XY.data) |->
                 IF Gt(XY.data[f].re, Int2R(1)) THEN I2C(1) ELSE XY.data[f]]]

\* XY = (point_a * point_b).sum(0); XY[XY > 1] = 1: what dist hands to arccos.
Oblique_dist_XY(self, point_a, point_b) ==
    SetOneWhereGtOne(sum0(np_mul(point_a, point_b)))

Oblique_dist(self, point_a, point_b) ==
    np_linalg_norm(np_arccos(Oblique_dist_XY(self, point_a, point_b)))

\* Seeded fault: the radial component is subtracted twice (a reflection).
Oblique_projection_reflect(self, point, vector) ==
    np_sub(vector,
           np_mul(Scalar(I2C(2)), np_mul(point, newaxis(sum0(np_mul(point, vector))))))

Oblique_projection(self, point, vector) ==
    np_sub(vector, np_mul(point, newaxis(sum0(np_mul(point, vector)))))

\* norm = np.sqrt((tangent_vector ** 2).sum(0))[np.newaxis, :];
\* target_point = point * cos(norm) + tangent_vector * sinc(norm / pi).
Oblique_exp(self, point, tangent_vector) ==
    LET target(norm) ==
            np_add(np_mul(point, np_cos(norm)),
                   np_mul(tangent_vector, np_sinc(np_div(norm, Scalar(R2C(np_pi))))))
    IN  target(newaxis(np_sqrt(sum0(np_mul(tangent_vector, tangent_vector)))))

\* vector = projection(point_a, point_b - point_a);
\* distances = arccos((point_a * point_b).sum(0));
\* norms = sqrt((vector ** 2).sum(0)).real;
\* return vector * ((distances + epsilon) / (norms + epsilon)).
Oblique_log(self, point_a, point_b) ==
    LET epsilon == Scalar(R2C(np_finfo_float64_eps))
        distances == np_arccos(sum0(np_mul(point_a, point_b)))
        scaled(vector) ==
            np_mul(vector,
                   np_div(np_add(distances, epsilon),
                          np_add(np_real(np_sqrt(sum0(np_mul(vector, vector)))), epsilon)))
    IN  scaled(Oblique_projection(self, point_a, np_sub(point_b, point_a)))

\* Seeded fault: the projection is taken at point_a instead of point_b.
Oblique_transport_at_a(self, point_a, point_b, tangent_vector_a) ==
    Oblique_projection(self, point_a, tangent_vector_a)

Oblique_transport(self, point_a, point_b, tangent_vector_a) ==
    Oblique_projection(self, point_b, tangent_vector_a)

Oblique_zero_vector(self, point) == np_zeros(<<<<self.m, self.n>>>>, "float64")

(***************************************************************************)
(* class Positive(Manifold)                                                *)
(***************************************************************************)
\* Seeded fault: the two branches of the transport choice are swapped.
Positive_init_swapped(m, n, k, use_parallel_transport) ==
    [NewObject("Positive") EXCEPT
        !.m = m, !.n = n, !.k = k,
        !.transport = IF use_parallel_transport THEN "_transporter"
                      ELSE "_parallel_transport",
        !.name = <<"Manifold of positive matrices", k, m, n>>,
        !.dimension = PyMul(PyMul(PyInt(k), PyInt(m)), PyInt(n))]

Positive_init(m, n, k, use_parallel_transport) ==
    Manifold_init([NewObject("Positive") EXCEPT
                      !.m = m, !.n = n, !.k = k,
                      !.transport = IF use_parallel_transport
                                    THEN "_parallel_transport"
                                    ELSE "_transporter"],
                  IF k = 1 THEN <<"Manifold of positive matrices", m, n>>
                           ELSE <<"Product manifold of positive matrices", k, m, n>>,
                  PyMul(PyMul(PyInt(k), PyInt(m)), PyInt(n)))

Positive_projection(self, point, vector) == vector

\* np.zeros(*point.shape): the dimensions are passed as separate arguments.
Positive_zero_vector(self, point) == np_zeros(point.shape, "float64")

Positive_exp(self, point, tangent_vector) ==
    np_mul(point, np_exp(np_div(tangent_vector, point)))

\* Seeded fault: the factor point_a is dropped.
Positive_log_unscaled(self, point_a, point_b) ==
    np_sub(np_log(point_b), np_log(point_a))

Positive_log(self, point_a, point_b) ==
    np_mul(point_a, np_sub(np_log(point_b), np_log(point_a)))

Positive_transporter(self, point_a, point_b, tangent_vector_a) == tangent_vector_a

\* Seeded fault: the quotient is inverted.
Positive_parallel_transport_inverted(self, point_a, point_b, tangent_vector_a) ==
    np_div(np_mul(tangent_vector_a, point_a), point_b)

Positive_parallel_transport(self, point_a, point_b, tangent_vector_a) ==
    np_div(np_mul(tangent_vector_a, point_b), point_a)

\* self._transport(point_a, point_b, tangent_vector_a)
Positive_transport(self, point_a, point_b, tangent_vector_a) ==
    IF self.transport = "_parallel_transport"
    THEN Positive_parallel_transport(self, point_a, point_b, tangent_vector_a)
    ELSE Positive_transporter(self, point_a, point_b, tangent_vector_a)

(***************************************************************************)
(* class _PositiveDefiniteBase(RiemannianSubmanifold) and its subclasses    *)
(***************************************************************************)
PositiveDefiniteBase_init(self, name, dimension) ==
    Manifold_init(self, name, dimension)

PositiveDefiniteBase_projection(self, point, vector) == multiherm(vector)

PositiveDefiniteBase_euclidean_to_riemannian_hessian(self, point, euclidean_gradient, euclidean_hessian, tangent_vector) ==
    np_add(matmul(matmul(point, multiherm(euclidean_hessian)), point),
           multiherm(matmul(matmul(tangent_vector, multiherm(euclidean_gradient)),
                            point)))

PositiveDefiniteBase_transport(self, point_a, point_b, tangent_vector_a) ==
    tangent_vector_a

PositiveDefiniteBase_exp(self, point, tangent_vector) ==
    LET p_inv_tv == np_linalg_solve(point, tangent_vector)
    IN  matmul(point, multiexpm(p_inv_tv, FALSE))

\* c = cholesky(point_a); c_inv = inv(c);
\* logm = multilogm(c_inv @ point_b @ multihconj(c_inv), positive_definite=True)
PositiveDefiniteBase_logm(c_inv, point_b) ==
    multilogm(matmul(matmul(c_inv, point_b), multihconj(c_inv)), TRUE)

PositiveDefiniteBase_dist(self, point_a, point_b) ==
    np_real(np_linalg_norm(
        PositiveDefiniteBase_logm(np_linalg_inv(np_linalg_cholesky(point_a)), point_b)))

PositiveDefiniteBase_log(self, point_a, point_b) ==
    LET back(c) ==
            matmul(matmul(c, PositiveDefiniteBase_logm(np_linalg_inv(c), point_b)),
                   multihconj(c))
    IN  back(np_linalg_cholesky(point_a))

PositiveDefiniteBase_zero_vector(self, point) ==
    IF self.k = 1 THEN np_zeros(<<<<self.n, self.n>>>>, "float64")
    ELSE np_zeros(<<<<self.k, self.n, self.n>>>>, "float64")

SymmetricPositiveDefinite_init(n, k) ==
    PositiveDefiniteBase_init(
        [NewObject("SymmetricPositiveDefinite") EXCEPT !.n = n, !.k = k],
        IF k = 1 THEN <<"Manifold of positive definite matrices", n>>
                 ELSE <<"Product manifold of positive definite matrices", k, n>>,
        PyIntOfFloat(PyTrueDivBy2(PyMul(PyMul(PyInt(k), PyInt(n)), PyInt(n + 1)))))

HermitianPositiveDefinite_init(self, n, k) ==
    PositiveDefiniteBase_init(
        [self EXCEPT !.n = n, !.k = k],
        IF k = 1 THEN <<"Manifold of Hermitian positive definite matrices", n>>
                 ELSE <<"Product manifold of Hermitian positive definite", k, n>>,
        PyMul(PyMul(PyInt(k), PyInt(n)), PyInt(n + 1)))

HermitianPositiveDefinite_zero_vector(self, point) ==
    IF self.k = 1 THEN np_zeros(<<<<self.n, self.n>>>>, "complex128")
    ELSE np_zeros(<<<<self.k, self.n, self.n>>>>, "complex128")

\* super().__init__(n, k=k), then self.dim = int(k * n * (n + 1) - k).
SpecialHermitianPositiveDefinite_init(n, k, has_setter) ==
    Manifold_set_dim(
        HermitianPositiveDefinite_init(
            NewObject("SpecialHermitianPositiveDefinite"), n, k),
        PySub(PyMul(PyMul(PyInt(k), PyInt(n)), PyInt(n + 1)), PyInt(k)), has_setter)

\* shape = (k, 1, 1) if k > 1 else (1, 1)
SHPD_shape(k) == IF k > 1 THEN <<k, 1, 1>> ELSE <<1, 1>>

\* Seeded fault: the factor 1/n is dropped.
SpecialHermitianPositiveDefinite_projection_unscaled(self, point, vector) ==
    LET k == self.k
        t(herm) == reshape(np_real(np_trace(np_linalg_solve(point, herm))), SHPD_shape(k))
        traceless(herm) == np_sub(herm, np_mul(t(herm), point))
    IN  traceless(PositiveDefiniteBase_projection(self, point, vector))

\* vector = super().projection(point, vector), then
\* t = trace(solve(point, vector)).real; return vector - (1/n) t point.
SpecialHermitianPositiveDefinite_projection(self, point, vector) ==
    LET n == self.n
        k == self.k
        t(herm) == reshape(np_real(np_trace(np_linalg_solve(point, herm))), SHPD_shape(k))
        traceless(herm) == np_sub(herm, np_mul(np_mul(Scalar(QC(1, 0, n)), t(herm)), point))
    IN  traceless(PositiveDefiniteBase_projection(self, point, vector))

\* Seeded fault: the decorator is dropped, so the body (pass) runs.
SpecialHermitianPositiveDefinite_hessian_undecorated(self, point, euclidean_gradient, euclidean_hessian, tangent_vector) ==
    None

SpecialHermitianPositiveDefinite_euclidean_to_riemannian_hessian(self, point, euclidean_gradient, euclidean_hessian, tangent_vector) ==
    raise_not_implemented_error(None)

\* e = super().exp(point, tangent_vector); return e / det(e) ** (1/n).
SpecialHermitianPositiveDefinite_exp(self, point, tangent_vector) ==
    LET n == self.n
        k == self.k
        unit_det(e) == np_div(e, reshape(root(np_linalg_det(e), n), SHPD_shape(k)))
    IN  unit_det(PositiveDefiniteBase_exp(self, point, tangent_vector))

\* Seeded fault: the projection is taken at point_a instead of point_b.
SpecialHermitianPositiveDefinite_transport_at_a(self, point_a, point_b, tangent_vector_a) ==
    SpecialHermitianPositiveDefinite_projection(
        self, point_a, PositiveDefiniteBase_projection(self, point_a, tangent_vector_a))

SpecialHermitianPositiveDefinite_transport(self, point_a, point_b, tangent_vector_a) ==
    SpecialHermitianPositiveDefinite_projection(
        self, point_b, PositiveDefiniteBase_projection(self, point_b, tangent_vector_a))

(***************************************************************************)
(* Sampling.  Each method reads the module-level generator at position rng; *)
(* the companion _draws operator is the number of variates it consumes.     *)
(***************************************************************************)
Oblique_normalize_columns(self, array) ==
    np_div(array, newaxis(np_linalg_norm_axis0(array)))

\* Seeded fault: the sum is returned without normalising its columns.
Oblique_pair_mean_unnormalized(self, point_a, point_b) ==
    np_add(point_a, point_b)

Oblique_pair_mean(self, point_a, point_b) ==
    Oblique_normalize_columns(self, np_add(point_a, point_b))

Oblique_random_point(self, rng) ==
    Oblique_normalize_columns(self, np_random_normal(rng, <<self.m, self.n>>))

Oblique_random_point_draws(self) == self.m * self.n

Oblique_random_tangent_vector(self, point, rng) ==
    LET vector == np_random_normal(rng, point.shape)
        unit(tangent_vector) ==
            np_div(tangent_vector, Oblique_norm(self, point, tangent_vector))
    IN  unit(Oblique_projection(self, point, vector))

Positive_inner_product(self, point, tangent_vector_a, tangent_vector_b) ==
    np_tensordot(np_div(tangent_vector_a, point), np_div(tangent_vector_b, point))

Positive_norm(self, point, tangent_vector) ==
    np_sqrt(Positive_inner_product(self, point, tangent_vector, tangent_vector))

\* if self._k == 1: return point[0]
Squeeze(self, point) == IF self.k = 1 THEN item0(point) ELSE point

Positive_random_point(self, rng) ==
    Squeeze(self, np_exp(np_random_normal(rng, <<self.k, self.m, self.n>>)))

Positive_random_point_draws(self) == self.k * self.m * self.n

Positive_random_tangent_vector(self, point, rng) ==
    LET unit(vector) == np_div(vector, Positive_norm(self, point, vector))
    IN  unit(np_mul(np_random_normal(rng, point.shape), point))

PositiveDefiniteBase_inner_product(self, point, tangent_vector_a, tangent_vector_b) ==
    np_real(np_tensordot(np_linalg_solve(point, tangent_vector_a),
                         multitransp(np_linalg_solve(point, tangent_vector_b))))

PositiveDefiniteBase_norm(self, point, tangent_vector) ==
    np_sqrt(PositiveDefiniteBase_inner_product(self, point, tangent_vector, tangent_vector))

PositiveDefiniteBase_random_point(self, rng) ==
    LET d == np_add(Scalar(I2C(1)), np_random_uniform(rng, <<self.k, self.n, 1>>))
        point(q) == matmul(q, np_mul(d, multitransp(q)))
    IN  Squeeze(self, point(multiqr_q(np_random_normal(rng + self.k * self.n,
                                                       <<self.n, self.n>>))))

PositiveDefiniteBase_random_point_draws(self) == self.k * self.n + self.n * self.n

PositiveDefiniteBase_random_tangent_vector(self, point, rng) ==
    LET k == self.k
        n == self.n
        unit(tangent_vector) ==
            np_div(tangent_vector, PositiveDefiniteBase_norm(self, point, tangent_vector))
    IN  unit(IF k = 1 THEN multisym(np_random_normal(rng, <<n, n>>))
             ELSE multisym(np_random_normal(rng, <<k, n, n>>)))

PositiveDefiniteBase_random_tangent_vector_draws(self) == self.k * self.n * self.n

HermitianPositiveDefinite_random_point(self, rng) ==
    LET d == np_add(Scalar(I2C(1)), np_random_uniform(rng, <<self.k, self.n, 1>>))
        point(q) == matmul(q, np_mul(d, multihconj(q)))
    IN  Squeeze(self, point(multiqr_q(
                 np_add(np_random_normal(rng + self.k * self.n, <<self.n, self.n>>),
                        np_mul(ImagUnit,
                               np_random_normal(rng + self.k * self.n + self.n * self.n,
                                                <<self.n, self.n>>))))))

HermitianPositiveDefinite_random_point_draws(self) ==
    self.k * self.n + 2 * self.n * self.n

HermitianPositiveDefinite_random_tangent_vector(self, point, rng) ==
    LET k == self.k
        n == self.n
        sh == IF k = 1 THEN <<n, n>> ELSE <<k, n, n>>
        unit(tangent_vector) ==
            np_div(tangent_vector, PositiveDefiniteBase_norm(self, point, tangent_vector))
    IN  unit(multiherm(np_add(np_random_normal(rng, sh),
                              np_mul(ImagUnit, np_random_normal(rng + Prod(sh), sh)))))

HermitianPositiveDefinite_random_tangent_vector_draws(self) ==
    2 * self.k * self.n * self.n

SpecialHermitianPositiveDefinite_random_point(self, rng) ==
    LET n == self.n
        k == self.k
        unit_det(point) ==
            np_div(point, reshape(root(np_linalg_det(point), n), SHPD_shape(k)))
    IN  unit_det(HermitianPositiveDefinite_random_point(self, rng))

SpecialHermitianPositiveDefinite_random_tangent_vector(self, point, rng) ==
    LET unit(tangent_vector) ==
            np_div(tangent_vector, PositiveDefiniteBase_norm(self, point, tangent_vector))
    IN  unit(SpecialHermitianPositiveDefinite_projection(
                 self, point,
                 HermitianPositiveDefinite_random_tangent_vector(self, point, rng)))

(***************************************************************************)
(* Attribute lookup.  ClassDict is what each class body defines; MRO is the *)
(* method resolution order.  The base classes live in                       *)
(* pymanopt/manifolds/manifold.py: Manifold declares the contract, the      *)
(* submanifold classes add the ambient inner product and the gradient.      *)
(***************************************************************************)
ContractOps ==
    {"inner_product", "norm", "projection", "euclidean_to_riemannian_gradient",
     "euclidean_to_riemannian_hessian", "exp", "log", "retraction", "dist",
     "random_point", "random_tangent_vector", "transport", "pair_mean",
     "zero_vector"}

ClassDict(cls) ==
    CASE cls = "Oblique" ->
            {"__init__", "typical_dist", "inner", "norm", "dist", "projection",
             "ehess2rhess", "exp", "retraction", "log", "random_point",
             "random_tangent_vector", "transport", "pair_mean", "zero_vector",
             "_normalize_columns"}
      [] cls = "Positive" ->
            {"__init__", "typical_dist", "inner_product", "projection", "norm",
             "random_point", "random_tangent_vector", "zero_vector", "dist",
             "euclidean_to_riemannian_gradient", "euclidean_to_riemannian_hvp",
             "exp", "log", "retraction", "_transporter", "_parallel_transport",
             "transport"}
      [] cls = "_PositiveDefiniteBase" ->
            {"__init__", "typical_dist", "dist", "inner_product", "projection",
             "to_tangent_space", "euclidean_to_riemannian_gradient",
             "euclidean_to_riemannian_hessian", "norm", "random_point",
             "random_tangent_vector", "transport", "exp", "retraction", "log",
             "zero_vector"}
      [] cls = "SymmetricPositiveDefinite" -> {"__init__"}
      [] cls = "HermitianPositiveDefinite" ->
            {"__init__", "random_point", "random_tangent_vector", "zero_vector"}
      [] cls = "SpecialHermitianPositiveDefinite" ->
            {"__init__", "random_point", "random_tangent_vector", "projection",
             "euclidean_to_riemannian_gradient", "euclidean_to_riemannian_hessian",
             "exp", "retraction", "transport"}
      [] cls \in {"EuclideanEmbeddedSubmanifold", "RiemannianSubmanifold"} ->
            {"inner_product", "euclidean_to_riemannian_gradient"}
      [] cls = "Manifold" -> ContractOps \cup {"__init__", "dim"}
      [] OTHER -> {}

MRO(cls) ==
    CASE cls = "Oblique" -> <<"Oblique", "EuclideanEmbeddedSubmanifold", "Manifold">>
      [] cls = "Positive" -> <<"Positive", "Manifold">>
      [] cls = "SymmetricPositiveDefinite" ->
            <<"SymmetricPositiveDefinite", "_PositiveDefiniteBase",
              "RiemannianSubmanifold", "Manifold">>
      [] cls = "HermitianPositiveDefinite" ->
            <<"HermitianPositiveDefinite", "_PositiveDefiniteBase",
              "RiemannianSubmanifold", "Manifold">>
      [] cls = "SpecialHermitianPositiveDefinite" ->
            <<"SpecialHermitianPositiveDefinite", "HermitianPositiveDefinite",
              "_PositiveDefiniteBase", "RiemannianSubmanifold", "Manifold">>
      [] OTHER -> <<>>

\* The class whose definition of name an instance of cls reaches; "" if none.
Resolve(cls, name) ==
    LET mro == MRO(cls)
        hits == {i \in 1..Len(mro) : name \in ClassDict(mro[i])}
    IN  IF hits = {} THEN ""
        ELSE mro[CHOOSE i \in hits : \A j \in hits : i <= j]

\* The classes that implement operations (Manifold only declares them).
Concrete ==
    {"Oblique", "Positive", "_PositiveDefiniteBase", "SymmetricPositiveDefinite",
     "HermitianPositiveDefinite", "SpecialHermitianPositiveDefinite",
     "EuclideanEmbeddedSubmanifold", "RiemannianSubmanifold"}

(***************************************************************************)
(* Method calls: the implementation the receiver's class resolves to.       *)
(***************************************************************************)
Unbound == Raise("NotImplementedError")

zero_vector(self, point) ==
    LET owner == Resolve(self.cls, "zero_vector")
    IN  CASE owner = "Oblique" -> Oblique_zero_vector(self, point)
          [] owner = "Positive" -> Positive_zero_vector(self, point)
          [] owner = "_PositiveDefiniteBase" -> PositiveDefiniteBase_zero_vector(self, point)
          [] owner = "HermitianPositiveDefinite" ->
                HermitianPositiveDefinite_zero_vector(self, point)
          [] OTHER -> Unbound

exp(self, point, tangent_vector) ==
    LET owner == Resolve(self.cls, "exp")
    IN  CASE owner = "Oblique" -> Oblique_exp(self, point, tangent_vector)
          [] owner = "Positive" -> Positive_exp(self, point, tangent_vector)
          [] owner = "_PositiveDefiniteBase" ->
                PositiveDefiniteBase_exp(self, point, tangent_vector)
          [] owner = "SpecialHermitianPositiveDefinite" ->
                SpecialHermitianPositiveDefinite_exp(self, point, tangent_vector)
          [] OTHER -> Unbound

log(self, point_a, point_b) ==
    LET owner == Resolve(self.cls, "log")
    IN  CASE owner = "Oblique" -> Oblique_log(self, point_a, point_b)
          [] owner = "Positive" -> Positive_log(self, point_a, point_b)
          [] owner = "_PositiveDefiniteBase" ->
                PositiveDefiniteBase_log(self, point_a, point_b)
          [] OTHER -> Unbound

projection(self, point, vector) ==
    LET owner == Resolve(self.cls, "projection")
    IN  CASE owner = "Oblique" -> Oblique_projection(self, point, vector)
          [] owner = "Positive" -> Positive_projection(self, point, vector)
          [] owner = "_PositiveDefiniteBase" ->
                PositiveDefiniteBase_projection(self, point, vector)
          [] owner = "SpecialHermitianPositiveDefinite" ->
                SpecialHermitianPositiveDefinite_projection(self, point, vector)
          [] OTHER -> Unbound

transport(self, point_a, point_b, tangent_vector_a) ==
    LET owner == Resolve(self.cls, "transport")
    IN  CASE owner = "Oblique" ->
                Oblique_transport(self, point_a, point_b, tangent_vector_a)
          [] owner = "Positive" ->
                Positive_transport(self, point_a, point_b, tangent_vector_a)
          [] owner = "_PositiveDefiniteBase" ->
                PositiveDefiniteBase_transport(self, point_a, point_b, tangent_vector_a)
          [] owner = "SpecialHermitianPositiveDefinite" ->
                SpecialHermitianPositiveDefinite_transport(
                    self, point_a, point_b, tangent_vector_a)
          [] OTHER -> Unbound

euclidean_to_riemannian_hessian(self, point, euclidean_gradient, euclidean_hessian, tangent_vector) ==
    LET owner == Resolve(self.cls, "euclidean_to_riemannian_hessian")
    IN  CASE owner = "_PositiveDefiniteBase" ->
                PositiveDefiniteBase_euclidean_to_riemannian_hessian(
                    self, point, euclidean_gradient, euclidean_hessian, tangent_vector)
          [] owner = "SpecialHermitianPositiveDefinite" ->
                SpecialHermitianPositiveDefinite_euclidean_to_riemannian_hessian(
                    self, point, euclidean_gradient, euclidean_hessian, tangent_vector)
          [] OTHER -> Unbound

random_point(self, rng) ==
    LET owner == Resolve(self.cls, "random_point")
    IN  CASE owner = "Oblique" -> Oblique_random_point(self, rng)
          [] owner = "Positive" -> Positive_random_point(self, rng)
          [] owner = "_PositiveDefiniteBase" -> PositiveDefiniteBase_random_point(self, rng)
          [] owner = "HermitianPositiveDefinite" ->
                HermitianPositiveDefinite_random_point(self, rng)
          [] owner = "SpecialHermitianPositiveDefinite" ->
                SpecialHermitianPositiveDefinite_random_point(self, rng)
          [] OTHER -> Unbound

random_point_draws(self) ==
    LET owner == Resolve(self.cls, "random_point")
    IN  CASE owner = "Oblique" -> Oblique_random_point_draws(self)
          [] owner = "Positive" -> Positive_random_point_draws(self)
          [] owner = "_PositiveDefiniteBase" -> PositiveDefiniteBase_random_point_draws(self)
          [] OTHER -> HermitianPositiveDefinite_random_point_draws(self)

random_tangent_vector(self, point, rng) ==
    LET owner == Resolve(self.cls, "random_tangent_vector")
    IN  CASE owner = "Oblique" -> Oblique_random_tangent_vector(self, point, rng)
          [] owner = "Positive" -> Positive_random_tangent_vector(self, point, rng)
          [] owner = "_PositiveDefiniteBase" ->
                PositiveDefiniteBase_random_tangent_vector(self, point, rng)
          [] owner = "HermitianPositiveDefinite" ->
                HermitianPositiveDefinite_random_tangent_vector(self, point, rng)
          [] owner = "SpecialHermitianPositiveDefinite" ->
                SpecialHermitianPositiveDefinite_random_tangent_vector(self, point, rng)
          [] OTHER -> Unbound

random_tangent_vector_draws(self, point) ==
    LET owner == Resolve(self.cls, "random_tangent_vector")
    IN  CASE owner \in {"Oblique", "Positive"} -> Prod(point.shape)
          [] owner = "_PositiveDefiniteBase" ->
                PositiveDefiniteBase_random_tangent_vector_draws(self)
          [] OTHER -> HermitianPositiveDefinite_random_tangent_vector_draws(self)

(***************************************************************************)
(* Operations that reach other operations through self: the call goes to    *)
(* the implementation the receiver's class resolves to.                     *)
(***************************************************************************)
\* EuclideanEmbeddedSubmanifold: the gradient is the projected gradient.
EuclideanEmbeddedSubmanifold_euclidean_to_riemannian_gradient(self, point, euclidean_gradient) ==
    projection(self, point, euclidean_gradient)

Positive_euclidean_to_riemannian_gradient(self, point, euclidean_gradient) ==
    np_mul(euclidean_gradient, np_mul(point, point))

\* Seeded fault: the projection is left out.
PositiveDefiniteBase_gradient_unprojected(self, point, euclidean_gradient) ==
    matmul(matmul(point, euclidean_gradient), point)

\* return self.projection(point, point @ euclidean_gradient @ point)
PositiveDefiniteBase_euclidean_to_riemannian_gradient(self, point, euclidean_gradient) ==
    projection(self, point, matmul(matmul(point, euclidean_gradient), point))

\* return self.projection(point, super().euclidean_to_riemannian_gradient(...))
SpecialHermitianPositiveDefinite_euclidean_to_riemannian_gradient(self, point, euclidean_gradient) ==
    projection(self, point,
               PositiveDefiniteBase_euclidean_to_riemannian_gradient(
                   self, point, euclidean_gradient))

euclidean_to_riemannian_gradient(self, point, euclidean_gradient) ==
    LET owner == Resolve(self.cls, "euclidean_to_riemannian_gradient")
    IN  CASE owner = "EuclideanEmbeddedSubmanifold" ->
                EuclideanEmbeddedSubmanifold_euclidean_to_riemannian_gradient(
                    self, point, euclidean_gradient)
          [] owner = "Positive" ->
                Positive_euclidean_to_riemannian_gradient(self, point, euclidean_gradient)
          [] owner = "_PositiveDefiniteBase" ->
                PositiveDefiniteBase_euclidean_to_riemannian_gradient(
                    self, point, euclidean_gradient)
          [] owner = "SpecialHermitianPositiveDefinite" ->
                SpecialHermitianPositiveDefinite_euclidean_to_riemannian_gradient(
                    self, point, euclidean_gradient)
          [] OTHER -> Unbound

(***************************************************************************)
(* Bounds, and the arrays a caller passes.                                  *)
(***************************************************************************)
\* Rows and columns of a matrix: m, n in 1..MaxDim.
MaxDim == 2

\* Matrices in a product: k in 1..MaxK.
MaxK == 2

\* Sampling calls in one run.
MaxSamples == 2

Slots == {1, 2}

\* The sizes m, n of the manifolds that arrays are passed to.
ArraySizes == 1..MaxDim

\* The smallest n for which n * (n + 1) / 2 needs more significant digits
\* than a float64 holds.
LargeSize == 2^27 + 1

\* The sizes manifolds are constructed with when no array is ever built.
Sizes == ArraySizes \cup {LargeSize + i : i \in 0..(MaxDim - 1)}

\* The array of the given shape whose element at batch b, row r, column c
\* (0-based; b = 0 for a single matrix) is E(b, r, c).
Gen(shape, E(_, _, _), dtype) ==
    Arr(shape,
        [f \in 1..Prod(shape) |->
            LET idx == Unravel(shape, f)
            IN  IF Len(shape) = 2 THEN E(0, idx[1], idx[2])
                ELSE E(idx[1], idx[2], idx[3])],
        dtype)

\* The shape of a point of the manifold self.
PointShape(self) ==
    CASE self.cls = "Oblique" -> <<self.m, self.n>>
      [] self.cls = "Positive" ->
            IF self.k = 1 THEN <<self.m, self.n>> ELSE <<self.k, self.m, self.n>>
      [] OTHER -> IF self.k = 1 THEN <<self.n, self.n>> ELSE <<self.k, self.n, self.n>>

IsComplex(self) ==
    self.cls \in {"HermitianPositiveDefinite", "SpecialHermitianPositiveDefinite"}

DType(self) == IF IsComplex(self) THEN "complex128" ELSE "float64"

\* Matrices with unit-norm columns.
ObliquePoints(self) ==
    LET sh == PointShape(self)
    IN  { Gen(sh, LAMBDA b, r, c : I2C(IF r = 0 THEN 1 ELSE 0), "float64"),
          Gen(sh, LAMBDA b, r, c : I2C(IF r = c % self.m THEN 1 ELSE 0), "float64"),
          Gen(sh, LAMBDA b, r, c :
                  IF self.m = 1 THEN I2C(-1)
                  ELSE IF r = 0 THEN QC(3, 0, 5)
                  ELSE IF r = 1 THEN QC(IF c % 2 = 0 THEN 4 ELSE -4, 0, 5)
                  ELSE I2C(0), "float64") }

\* Matrices whose columns do not have unit norm: by a rounding-sized
\* overshoot (-1001/1000 in the first row), and by a wide margin.
ObliqueOffManifold(self) ==
    LET sh == PointShape(self)
    IN  { Gen(sh, LAMBDA b, r, c : IF r = 0 THEN QC(-1001, 0, 1000) ELSE I2C(0), "float64"),
          Gen(sh, LAMBDA b, r, c : I2C(IF r = 0 THEN 2 ELSE 0), "float64"),
          Gen(sh, LAMBDA b, r, c : I2C(IF r = 0 THEN -1 - c ELSE 0), "float64") }

\* Matrices with strictly positive entries.
PositivePoints(self) ==
    LET sh == PointShape(self)
    IN  { Gen(sh, LAMBDA b, r, c : I2C(1), "float64"),
          Gen(sh, LAMBDA b, r, c : I2C(1 + r + 2 * c + b), "float64"),
          Gen(sh, LAMBDA b, r, c : IF (r + c + b) % 2 = 0 THEN QC(1, 0, 2) ELSE I2C(3),
              "float64") }

\* The entry i (Hermitian classes) or 1 (the real class) above the diagonal.
OffDiag(self, upper) ==
    IF IsComplex(self) THEN QC(0, IF upper THEN 1 ELSE -1, 1) ELSE I2C(1)

\* Positive-definite matrices of determinant 1 (n >= 2), symmetric or
\* Hermitian: the identity, diag(2, 1/2, 1, ...), and [[2, z], [z*, 1]]
\* bordered by the identity.
UnitDetPoints(self) ==
    LET sh == PointShape(self)
        n == self.n
    IN  { Gen(sh, LAMBDA b, r, c : I2C(IF r = c THEN 1 ELSE 0), DType(self)) }
        \cup
        (IF n < 2 THEN {}
         ELSE { Gen(sh, LAMBDA b, r, c :
                        IF r # c THEN I2C(0)
                        ELSE IF r = b % 2 THEN I2C(2)
                        ELSE IF r = 1 - (b % 2) THEN QC(1, 0, 2)
                        ELSE I2C(1), DType(self)),
                Gen(sh, LAMBDA b, r, c :
                        IF r = 0 /\ c = 0 THEN I2C(2)
                        ELSE IF r = c THEN I2C(1)
                        ELSE IF r = 0 /\ c = 1 THEN OffDiag(self, TRUE)
                        ELSE IF r = 1 /\ c = 0 THEN OffDiag(self, FALSE)
                        ELSE I2C(0), DType(self)) })

\* A positive-definite matrix whose determinant is not 1: diag(2, 3, ...).
OtherDetPoints(self) ==
    { Gen(PointShape(self),
          LAMBDA b, r, c : I2C(IF r = c THEN 2 + r + b ELSE 0), DType(self)) }

\* A singular matrix.
NotPositiveDefinite(self) ==
    { Gen(PointShape(self), LAMBDA b, r, c : I2C(0), DType(self)) }

Points(self) ==
    CASE self.cls = "Oblique" -> ObliquePoints(self)
      [] self.cls = "Positive" -> PositivePoints(self)
      [] self.cls = "SpecialHermitianPositiveDefinite" -> UnitDetPoints(self)
      [] OTHER -> UnitDetPoints(self) \cup OtherDetPoints(self)

\* Ambient arrays of the shape of a point: zero, one that is not symmetric
\* (not Hermitian), and diagonal ones diag(1, -1, 0, ...), diag(4, -1, 0, ...).
Vectors(self) ==
    LET sh == PointShape(self)
    IN  { Gen(sh, LAMBDA b, r, c : I2C(0), DType(self)),
          Gen(sh, LAMBDA b, r, c :
                  IF IsComplex(self) THEN QC(2 * r - c + 1 + b, r + 1, 1)
                  ELSE QC(2 * r - c + 1 + b, 0, 2), DType(self)),
          Gen(sh, LAMBDA b, r, c :
                  I2C(IF r # c THEN 0 ELSE IF r = 0 THEN 1 ELSE IF r = 1 THEN -1 ELSE 0),
              DType(self)),
          Gen(sh, LAMBDA b, r, c :
                  I2C(IF r # c THEN 0 ELSE IF r = 0 THEN 4 ELSE IF r = 1 THEN -1 ELSE 0),
              DType(self)) }

PositiveDefiniteFamily ==
    {"SymmetricPositiveDefinite", "HermitianPositiveDefinite",
     "SpecialHermitianPositiveDefinite"}

\* A positive-definite diagonal matrix of determinant 1 whose Cholesky
\* factor is rational: diag(4, 1/4, 1, ...), the two swapped in odd indices.
SquareDiagonalPoints(self) ==
    IF self.cls \notin PositiveDefiniteFamily \/ self.n < 2 THEN {}
    ELSE { Gen(PointShape(self), LAMBDA b, r, c :
                   IF r # c THEN I2C(0)
                   ELSE IF r = b % 2 THEN I2C(4)
                   ELSE IF r = 1 - (b % 2) THEN QC(1, 0, 4)
                   ELSE I2C(1), DType(self)) }

\* Matrices that are not positive definite: the zero matrix, minus the
\* identity, and the identity with a non-zero entry above the diagonal
\* (not symmetric, and its symmetric part is indefinite).
NotPositiveDefiniteMore(self) ==
    NotPositiveDefinite(self)
    \cup { Gen(PointShape(self), LAMBDA b, r, c : I2C(IF r = c THEN -1 ELSE 0),
               DType(self)) }
    \cup (IF self.n < 2 THEN {}
          ELSE { Gen(PointShape(self),
                     LAMBDA b, r, c : I2C(IF r = c THEN 1 ELSE IF r < c THEN 7 ELSE 0),
                     DType(self)) })

\* The points log and dist are called with.
LogPoints(self) ==
    IF self.cls \in PositiveDefiniteFamily
    THEN Points(self) \cup SquareDiagonalPoints(self) \cup NotPositiveDefiniteMore(self)
    ELSE Points(self)

(***************************************************************************)
(* The state: the manifold objects the consumer holds, the arguments their  *)
(* constructors were given, numpy's module-level generator, and the call    *)
(* in progress.                                                             *)
(***************************************************************************)
VARIABLES
    man,      \* slot -> the manifold object bound there (cls = "" when none)
    ctor,     \* slot -> the constructor arguments of that object
    rng,      \* np.random: variates drawn so far by anyone
    own,      \* slot -> variates drawn by that object's own calls
    nsamples, \* sampling calls made
    last      \* the last call: operation, receiver, arguments, result

vars == <<man, ctor, rng, own, nsamples, last>>

NoObject == NewObject("")

NoArgs == [cls |-> "", m |-> 0, n |-> 0, k |-> 0, use_parallel_transport |-> FALSE]

\* No call in progress.
Idle ==
    [op |-> "", slot |-> 0, name |-> "", args |-> <<>>, ret |-> None,
     aux |-> None, owner |-> "", pos |-> 0, alone |-> 0]

Returned(op, s, args, ret) ==
    [Idle EXCEPT !.op = op, !.slot = s, !.args = args, !.ret = ret]

Init ==
    /\ man = [s \in Slots |-> NoObject]
    /\ ctor = [s \in Slots |-> NoArgs]
    /\ rng = 0
    /\ own = [s \in Slots |-> 0]
    /\ nsamples = 0
    /\ last = Idle

Bound(s) == man[s].cls # ""

\* obj = Cls(...): a constructor that raises leaves the name unbound.
Bind(s, obj, args) ==
    /\ last = Idle
    /\ ~Bound(s)
    /\ IF obj.exc = "" THEN /\ man' = [man EXCEPT ![s] = obj]
                            /\ ctor' = [ctor EXCEPT ![s] = args]
                            /\ last' = [Returned("__init__", s, <<>>, None)
                                            EXCEPT !.name = args.cls]
       ELSE /\ UNCHANGED <<man, ctor>>
            /\ last' = [Returned("__init__", s, <<>>, Raise(obj.exc))
                           EXCEPT !.name = args.cls]
    /\ UNCHANGED <<rng, own, nsamples>>

NewOblique(s, sizes) ==
    \E m \in sizes, n \in sizes :
        Bind(s, Oblique_init(m, n), [NoArgs EXCEPT !.cls = "Oblique", !.m = m, !.n = n])

NewPositive(s, sizes) ==
    \E m \in sizes, n \in sizes, k \in 1..MaxK, pt \in BOOLEAN :
        Bind(s, Positive_init(m, n, k, pt),
             [cls |-> "Positive", m |-> m, n |-> n, k |-> k,
              use_parallel_transport |-> pt])

NewSymmetricPositiveDefinite(s, sizes) ==
    \E n \in sizes, k \in 1..MaxK :
        Bind(s, SymmetricPositiveDefinite_init(n, k),
             [NoArgs EXCEPT !.cls = "SymmetricPositiveDefinite", !.n = n, !.k = k])

NewHermitianPositiveDefinite(s, sizes) ==
    \E n \in sizes, k \in 1..MaxK :
        Bind(s, HermitianPositiveDefinite_init(NewObject("HermitianPositiveDefinite"), n, k),
             [NoArgs EXCEPT !.cls = "HermitianPositiveDefinite", !.n = n, !.k = k])

\* Whether the dim property of the base class has a setter is not decided by
\* the classes modelled here: both outcomes are kept.
NewSpecialHermitianPositiveDefinite(s, sizes) ==
    \E n \in sizes, k \in 1..MaxK, has_setter \in BOOLEAN :
        Bind(s, SpecialHermitianPositiveDefinite_init(n, k, has_setter),
             [NoArgs EXCEPT !.cls = "SpecialHermitianPositiveDefinite", !.n = n, !.k = k])

Construct(s, sizes) ==
    \/ NewOblique(s, sizes)
    \/ NewPositive(s, sizes)
    \/ NewSymmetricPositiveDefinite(s, sizes)
    \/ NewHermitianPositiveDefinite(s, sizes)
    \/ NewSpecialHermitianPositiveDefinite(s, sizes)

\* A call that touches neither the objects nor the generator.
PureCall(rec) ==
    /\ last' = rec
    /\ UNCHANGED <<man, ctor, rng, own, nsamples>>

Ready(s) == last = Idle /\ Bound(s)

\* The consumer drops the result of the last call.
Discard ==
    /\ last # Idle
    /\ last' = Idle
    /\ UNCHANGED <<man, ctor, rng, own, nsamples>>

\* manifold.dim
ReadDim(s) ==
    /\ Ready(s)
    /\ PureCall([Returned("dim", s, <<>>, Scalar(I2C(PyIntValue(Manifold_dim(man[s])))))
                    EXCEPT !.owner = Resolve(man[s].cls, "dim")])

\* getattr(manifold, name) for an operation of the contract.
GetAttr(s) ==
    /\ Ready(s)
    /\ \E name \in ContractOps :
          PureCall([Returned("getattr", s, <<>>, None)
                       EXCEPT !.name = name, !.owner = Resolve(man[s].cls, name)])

CallZeroVector(s) ==
    /\ Ready(s)
    /\ \E p \in Points(man[s]) :
          LET point == Obj(1, p)
          IN  PureCall(Returned("zero_vector", s, <<point>>, zero_vector(man[s], point)))

CallExp(s) ==
    /\ Ready(s)
    /\ \E p \in Points(man[s]), v \in Vectors(man[s]) :
          LET point == Obj(1, p)
              tangent_vector == Obj(2, v)
          IN  PureCall(Returned("exp", s, <<point, tangent_vector>>,
                                exp(man[s], point, tangent_vector)))

\* manifold.exp(point, manifold.zero_vector(point))
CallExpAtZero(s) ==
    /\ Ready(s)
    /\ \E p \in Points(man[s]) :
          LET point == Obj(1, p)
              zero == zero_vector(man[s], point)
          IN  PureCall(Returned("exp_at_zero", s, <<point>>,
                                IF Raised(zero) THEN zero ELSE exp(man[s], point, zero)))

CallProjection(s) ==
    /\ Ready(s)
    /\ \E p \in Points(man[s]), v \in Vectors(man[s]) :
          LET point == Obj(1, p)
              vector == Obj(2, v)
          IN  PureCall(Returned("projection", s, <<point, vector>>,
                                projection(man[s], point, vector)))

CallTransport(s) ==
    /\ Ready(s)
    /\ \E pa \in Points(man[s]), pb \in Points(man[s]), v \in Vectors(man[s]) :
          LET point_a == Obj(1, pa)
              point_b == Obj(2, pb)
              tangent_vector_a == Obj(3, v)
          IN  PureCall(Returned("transport", s, <<point_a, point_b, tangent_vector_a>>,
                                transport(man[s], point_a, point_b, tangent_vector_a)))

\* Oblique.dist, on points of the manifold and on arrays that are not.
CallDist(s) ==
    /\ Ready(s)
    /\ man[s].cls = "Oblique"
    /\ \E pa \in ObliquePoints(man[s]) \cup ObliqueOffManifold(man[s]),
          pb \in ObliquePoints(man[s]) \cup ObliqueOffManifold(man[s]) :
          LET point_a == Obj(1, pa)
              point_b == Obj(2, pb)
          IN  PureCall([Returned("dist", s, <<point_a, point_b>>,
                                 Oblique_dist(man[s], point_a, point_b))
                           EXCEPT !.aux = Oblique_dist_XY(man[s], point_a, point_b)])

\* The Hessian conversion of the positive-definite family, on valid and on
\* invalid arguments.
CallHessian(s) ==
    /\ Ready(s)
    /\ Resolve(man[s].cls, "euclidean_to_riemannian_hessian") \in Concrete
    /\ \E p \in Points(man[s]) \cup NotPositiveDefinite(man[s]),
          g \in Vectors(man[s]), u \in Vectors(man[s]) :
          LET point == Obj(1, p)
              euclidean_gradient == Obj(2, g)
              euclidean_hessian == Obj(3, g)
              tangent_vector == Obj(4, u)
          IN  PureCall(Returned("euclidean_to_riemannian_hessian", s,
                                <<point, euclidean_gradient, euclidean_hessian,
                                  tangent_vector>>,
                                euclidean_to_riemannian_hessian(
                                    man[s], point, euclidean_gradient,
                                    euclidean_hessian, tangent_vector)))

CallGradient(s) ==
    /\ Ready(s)
    /\ \E p \in Points(man[s]), g \in Vectors(man[s]) :
          LET point == Obj(1, p)
              euclidean_gradient == Obj(2, g)
          IN  PureCall(Returned("euclidean_to_riemannian_gradient", s,
                                <<point, euclidean_gradient>>,
                                euclidean_to_riemannian_gradient(
                                    man[s], point, euclidean_gradient)))

\* The generator moves on by the variates the call drew.
Sampled(s, rec, draws) ==
    /\ nsamples < MaxSamples
    /\ last' = [rec EXCEPT !.pos = rng, !.alone = own[s]]
    /\ rng' = rng + draws
    /\ own' = [own EXCEPT ![s] = own[s] + draws]
    /\ nsamples' = nsamples + 1
    /\ UNCHANGED <<man, ctor>>

CallRandomPoint(s) ==
    /\ Ready(s)
    /\ Sampled(s, Returned("random_point", s, <<>>, random_point(man[s], rng)),
               random_point_draws(man[s]))

CallRandomTangentVector(s) ==
    /\ Ready(s)
    /\ \E p \in Points(man[s]) :
          LET point == Obj(1, p)
          IN  Sampled(s, Returned("random_tangent_vector", s, <<point>>,
                                  random_tangent_vector(man[s], point, rng)),
                      random_tangent_vector_draws(man[s], point))

\* One manifold and every operation on arrays.
Next ==
    \/ Construct(1, ArraySizes)
    \/ ReadDim(1)
    \/ GetAttr(1)
    \/ CallZeroVector(1)
    \/ CallExp(1)
    \/ CallExpAtZero(1)
    \/ CallProjection(1)
    \/ CallTransport(1)
    \/ CallDist(1)
    \/ CallHessian(1)
    \/ CallGradient(1)
    \/ Discard

Spec == Init /\ [][Next]_vars

\* The manifolds able to sample at the dimension MaxDim.
SamplingShape(s) ==
    ctor[s].n = MaxDim /\ ctor[s].m \in {0, MaxDim} /\ ~ctor[s].use_parallel_transport

\* Two manifolds sampling in any order from the one generator, and asking
\* for zero vectors.
NextSampling ==
    \/ \E s \in Slots : Construct(s, ArraySizes) /\ SamplingShape(s)'
    \/ \E s \in Slots : CallRandomPoint(s)
    \/ \E s \in Slots : CallRandomTangentVector(s)
    \/ \E s \in Slots : CallZeroVector(s)
    \/ Discard

SpecSampling == Init /\ [][NextSampling]_vars

CallLog(s) ==
    /\ Ready(s)
    /\ \E pa \in LogPoints(man[s]), pb \in LogPoints(man[s]) :
          LET point_a == Obj(1, pa)
              point_b == Obj(2, pb)
          IN  PureCall(Returned("log", s, <<point_a, point_b>>,
                                log(man[s], point_a, point_b)))

\* dist of the positive-definite family.
CallDistance(s) ==
    /\ Ready(s)
    /\ man[s].cls \in PositiveDefiniteFamily
    /\ \E pa \in LogPoints(man[s]), pb \in LogPoints(man[s]) :
          LET point_a == Obj(1, pa)
              point_b == Obj(2, pb)
          IN  PureCall(Returned("dist", s, <<point_a, point_b>>,
                                PositiveDefiniteBase_dist(man[s], point_a, point_b)))

\* Oblique.pair_mean, on points of the manifold.
CallPairMean(s) ==
    /\ Ready(s)
    /\ man[s].cls = "Oblique"
    /\ \E pa \in ObliquePoints(man[s]), pb \in ObliquePoints(man[s]) :
          LET point_a == Obj(1, pa)
              point_b == Obj(2, pb)
          IN  PureCall(Returned("pair_mean", s, <<point_a, point_b>>,
                                Oblique_pair_mean(man[s], point_a, point_b)))

\* One Oblique manifold: its projections, transports and samples.
NextOblique ==
    \/ NewOblique(1, ArraySizes)
    \/ CallProjection(1)
    \/ CallTransport(1)
    \/ CallRandomTangentVector(1)
    \/ CallPairMean(1)
    \/ Discard

SpecOblique == Init /\ [][NextOblique]_vars

\* Construction alone, at small and at large sizes.
NextDimension ==
    \/ Construct(1, Sizes)
    \/ Discard

SpecDimension == Init /\ [][NextDimension]_vars

\* One manifold: log on every class, dist on the positive-definite family.
NextLog ==
    \/ Construct(1, ArraySizes)
    \/ CallLog(1)
    \/ CallDistance(1)
    \/ Discard

SpecLog == Init /\ [][NextLog]_vars

(***************************************************************************)
(* The properties checked.  Each reads the call that has just returned:     *)
(* last.ret is what it returned, last.args the arrays it was given, and     *)
(* man[last.slot] the manifold it was called on.                            *)
(***************************************************************************)
Receiver == man[last.slot]

\* v is a tangent vector at point: the projection onto the tangent space at
\* point leaves its value unchanged.
IsTangentAt(self, point, v) == ArrayEqual(projection(self, point, v), v)

\* C1: on every manifold and for every valid point,
\* exp(point, zero_vector(point)) completes without error and returns an
\* array equal to point.
C1_ExpAtZeroIsPoint ==
    last.op = "exp_at_zero" => ArrayEqual(last.ret, last.args[1])

\* C2: projection is idempotent on every manifold: projecting the result of
\* projection(point, v) again at the same point returns an equal array.
C2_ProjectionIdempotent ==
    last.op = "projection" =>
        ArrayEqual(projection(Receiver, last.args[1], last.ret), last.ret)

\* A projection on the unit-determinant manifold that changed its argument.
C2_Witness ==
    /\ last.op = "projection"
    /\ Receiver.cls = "SpecialHermitianPositiveDefinite"
    /\ Receiver.n = MaxDim
    /\ ArrayDiffer(last.ret, last.args[2])

\* C3: every operation of the contract, looked up by its contract name on
\* any of the five manifolds, reaches an implementation of it and not just
\* the declaration in the base class Manifold.
C3_ContractOperationsImplemented ==
    last.op = "getattr" => last.owner \in Concrete

\* C4: in Oblique.dist, arccos never receives an argument outside [-1, 1],
\* whatever the inputs.
C4_ArccosArgumentClipped ==
    last.op = "dist" =>
        \A f \in 1..Len(last.aux.data) :
            /\ ~Gt(last.aux.data[f].re, Int2R(1))
            /\ ~Lt(last.aux.data[f].re, Int2R(-1))

\* C5: on SpecialHermitianPositiveDefinite the Hessian conversion raises
\* NotImplementedError for every combination of arguments, valid or not,
\* k = 1 or k > 1: it returns no value and raises no other error.
C5_HessianNotImplemented ==
    (last.op = "euclidean_to_riemannian_hessian"
        /\ Receiver.cls = "SpecialHermitianPositiveDefinite")
    => last.ret = Raise("NotImplementedError")

\* The Hessian conversion called on a product manifold with a singular point.
C5_Witness ==
    /\ last.op = "euclidean_to_riemannian_hessian"
    /\ Receiver.cls = "SpecialHermitianPositiveDefinite"
    /\ Receiver.k > 1
    /\ \E p \in NotPositiveDefinite(Receiver) : ArrayEqual(last.args[1], p)
    /\ Raised(last.ret)

\* C6: an operation that returns a point or a tangent vector returns a newly
\* created array, never one of the array objects it was given.
C6_ReturnsNewArray ==
    (last.op \in {"zero_vector", "exp", "projection", "transport"}
        /\ ~Raised(last.ret))
    => last.ret.id = 0

\* The sample the call would have returned had the receiver been the only
\* one to draw from the generator: the generator stands at last.alone.
SampleAlone ==
    IF last.op = "random_point" THEN random_point(Receiver, last.alone)
    ELSE random_tangent_vector(Receiver, last.args[1], last.alone)

\* C7: the samples an instance returns do not depend on the sampling calls
\* made on another instance: each equals the sample it returns when run alone.
C7_SamplingIndependent ==
    last.op \in {"random_point", "random_tangent_vector"} =>
        ~ArrayDiffer(last.ret, SampleAlone)

\* C8: the transport mode of a Positive manifold is the one chosen at
\* construction, whatever was called in between: built without parallel
\* transport, transport returns tangent_vector_a; built with it, transport
\* returns tangent_vector_a * point_b / point_a.
C8_TransportModeFixed ==
    /\ \A s \in Slots :
          man[s].cls = "Positive" =>
              man[s].transport = IF ctor[s].use_parallel_transport
                                 THEN "_parallel_transport" ELSE "_transporter"
    /\ (last.op = "transport" /\ Receiver.cls = "Positive") =>
          IF ctor[last.slot].use_parallel_transport
          THEN ArrayEqual(last.ret,
                          np_div(np_mul(last.args[3], last.args[2]), last.args[1]))
          ELSE ArrayEqual(last.ret, last.args[3])

\* A parallel transport between two different points that changed the vector.
C8_Witness ==
    /\ last.op = "transport"
    /\ Receiver.cls = "Positive"
    /\ ctor[last.slot].use_parallel_transport
    /\ ArrayDiffer(last.ret, last.args[3])

\* C9 as stated: on the three positive-definite manifolds, transport returns
\* a value equal to tangent_vector_a for every tangent vector at point_a.
C9_TransportIsIdentity ==
    (/\ last.op = "transport"
     /\ Receiver.cls \in PositiveDefiniteFamily
     /\ IsTangentAt(Receiver, last.args[1], last.args[3]))
    => ArrayEqual(last.ret, last.args[3])

\* C9 amended: SymmetricPositiveDefinite and HermitianPositiveDefinite return
\* tangent_vector_a; SpecialHermitianPositiveDefinite returns the projection
\* of tangent_vector_a onto the tangent space at point_b, which equals
\* tangent_vector_a exactly when tangent_vector_a is tangent at point_b too.
C9_TransportAmended ==
    (/\ last.op = "transport"
     /\ Receiver.cls \in PositiveDefiniteFamily
     /\ IsTangentAt(Receiver, last.args[1], last.args[3]))
    => IF Receiver.cls = "SpecialHermitianPositiveDefinite"
       THEN /\ ArrayEqual(last.ret, projection(Receiver, last.args[2], last.args[3]))
            /\ ArrayEqual(last.ret, last.args[3])
                   <=> IsTangentAt(Receiver, last.args[2], last.args[3])
       ELSE ArrayEqual(last.ret, last.args[3])

\* A transport on the unit-determinant manifold of a vector tangent at
\* point_a that returned a different vector.
C9_Witness ==
    /\ last.op = "transport"
    /\ Receiver.cls = "SpecialHermitianPositiveDefinite"
    /\ IsTangentAt(Receiver, last.args[1], last.args[3])
    /\ ArrayDiffer(last.ret, last.args[3])

\* C10: SpecialHermitianPositiveDefinite(n, k) can be constructed, and its
\* dim then reads k*n*(n+1) - k.
C10_ConstructsWithDim ==
    /\ (last.op = "__init__" /\ last.name = "SpecialHermitianPositiveDefinite")
          => ~Raised(last.ret)
    /\ (last.op = "dim" /\ Receiver.cls = "SpecialHermitianPositiveDefinite")
          => last.ret = Scalar(I2C(Receiver.k * Receiver.n * (Receiver.n + 1)
                                   - Receiver.k))

\* The int a // 2, exactly.
PyFloorDivBy2(a) == IF a = <<>> THEN a ELSE Tail(a)

\* C11: the dimension handed to the base class at construction is exactly
\* (m-1)*n for Oblique(m, n), k*m*n for Positive(m, n, k) and k*n*(n+1)/2 for
\* SymmetricPositiveDefinite(n, k), for all positive m, n, k.
C11_DimensionExact ==
    \A s \in Slots :
        LET m == PyInt(ctor[s].m)
            n == PyInt(ctor[s].n)
            k == PyInt(ctor[s].k)
        IN  /\ man[s].cls = "Oblique" =>
                  man[s].dimension = PyMul(PySub(m, PyInt(1)), n)
            /\ man[s].cls = "Positive" =>
                  man[s].dimension = PyMul(PyMul(k, m), n)
            /\ man[s].cls = "SymmetricPositiveDefinite" =>
                  man[s].dimension =
                      PyFloorDivBy2(PyMul(PyMul(k, n), PyAdd(n, PyInt(1))))

\* C12: on Positive and on the positive-definite manifolds, random_point
\* returns an array of the shape the construction parameters fix ((m, n) or
\* (n, n) when k = 1, with k in front when k > 1), and
\* random_tangent_vector(point) and zero_vector(point) return an array of the
\* shape of point.
C12_ShapesFollowConstruction ==
    (/\ last.op \in {"random_point", "random_tangent_vector", "zero_vector"}
     /\ Receiver.cls \in PositiveDefiniteFamily \cup {"Positive"})
    => /\ ~Raised(last.ret)
       /\ last.ret.shape =
             IF last.op \in {"random_tangent_vector", "zero_vector"}
             THEN last.args[1].shape
             ELSE IF Receiver.cls = "Positive"
                  THEN (IF ctor[last.slot].k = 1
                        THEN <<ctor[last.slot].m, ctor[last.slot].n>>
                        ELSE <<ctor[last.slot].k, ctor[last.slot].m, ctor[last.slot].n>>)
                  ELSE (IF ctor[last.slot].k = 1
                        THEN <<ctor[last.slot].n, ctor[last.slot].n>>
                        ELSE <<ctor[last.slot].k, ctor[last.slot].n, ctor[last.slot].n>>)

\* X * sym(G) * X: the matrix product with the symmetric (Hermitian) part of G.
Congruence(X, G) == matmul(matmul(X, multiherm(G)), X)

\* C13 as stated: on the three positive-definite manifolds,
\* euclidean_to_riemannian_gradient(X, G) equals X * sym(G) * X for every
\* point X and every ambient G.
C13_GradientIsCongruence ==
    (last.op = "euclidean_to_riemannian_gradient"
        /\ Receiver.cls \in PositiveDefiniteFamily)
    => ArrayEqual(last.ret, Congruence(last.args[1], last.args[2]))

\* C13 amended: on SymmetricPositiveDefinite and HermitianPositiveDefinite the
\* gradient equals X * sym(G) * X; on SpecialHermitianPositiveDefinite it
\* equals the projection of X * sym(G) * X onto the tangent space at X, which
\* is X * sym(G) * X exactly when that matrix is tangent at X.
C13_GradientAmended ==
    (last.op = "euclidean_to_riemannian_gradient"
        /\ Receiver.cls \in PositiveDefiniteFamily)
    => IF Receiver.cls = "SpecialHermitianPositiveDefinite"
       THEN /\ ArrayEqual(last.ret,
                          SpecialHermitianPositiveDefinite_projection(
                              Receiver, last.args[1],
                              Congruence(last.args[1], last.args[2])))
            /\ ArrayEqual(last.ret, Congruence(last.args[1], last.args[2]))
                   <=> IsTangentAt(Receiver, last.args[1],
                                   Congruence(last.args[1], last.args[2]))
       ELSE ArrayEqual(last.ret, Congruence(last.args[1], last.args[2]))

\* A gradient on the unit-determinant manifold, for a product of matrices
\* and a G that is not Hermitian, that differs from X * sym(G) * X.
C13_Witness ==
    /\ last.op = "euclidean_to_riemannian_gradient"
    /\ Receiver.cls = "SpecialHermitianPositiveDefinite"
    /\ Receiver.k > 1
    /\ ArrayDiffer(multiherm(last.args[2]), last.args[2])
    /\ ArrayDiffer(last.ret, Congruence(last.args[1], last.args[2]))

\* The column sums of the elementwise product X * P.
ColumnDots(X, P) == sum0(np_mul(X, P))

\* Every element of a is exactly zero.
IsZeroArray(a) == ~Raised(a) /\ \A f \in 1..Len(a.data) : CIsZero(a.data[f])

\* Every element of a is nan.
IsNaNArray(a) == ~Raised(a) /\ \A f \in 1..Len(a.data) : IsNaN(a.data[f].re)

\* The projection at point of what random_tangent_vector drew.
ProjectedDraw ==
    Oblique_projection(Receiver, last.args[1],
                       np_random_normal(last.pos, last.args[1].shape))

\* C14 as stated: on Oblique the results of projection(X, V),
\* random_tangent_vector(X) and transport(point_a, X, u) are orthogonal to X
\* column by column: the column sums of X * result are all zero.
C14_TangentOrthogonal ==
    /\ (last.op \in {"projection", "random_tangent_vector"}
            /\ Receiver.cls = "Oblique")
          => IsZeroArray(ColumnDots(last.args[1], last.ret))
    /\ (last.op = "transport" /\ Receiver.cls = "Oblique")
          => IsZeroArray(ColumnDots(last.args[2], last.ret))

\* C14 amended: projection and transport are column-wise orthogonal to X;
\* random_tangent_vector(X) is so unless the projection of its draw is the
\* zero array, as it always is for m = 1, and then every element is nan.
C14_TangentAmended ==
    /\ (last.op = "projection" /\ Receiver.cls = "Oblique")
          => IsZeroArray(ColumnDots(last.args[1], last.ret))
    /\ (last.op = "transport" /\ Receiver.cls = "Oblique")
          => IsZeroArray(ColumnDots(last.args[2], last.ret))
    /\ (last.op = "random_tangent_vector" /\ Receiver.cls = "Oblique")
          => /\ Receiver.m = 1 => IsZeroArray(ProjectedDraw)
             /\ IF IsZeroArray(ProjectedDraw) THEN IsNaNArray(last.ret)
                ELSE IsZeroArray(ColumnDots(last.args[1], last.ret))

\* A sample of random_tangent_vector at a point without zero entries that is
\* a known array, not zero, and orthogonal to the point.
C14_Witness ==
    /\ last.op = "random_tangent_vector"
    /\ Receiver.cls = "Oblique"
    /\ \A f \in 1..Len(last.args[1].data) : ~CIsZero(last.args[1].data[f])
    /\ Known(last.ret)
    /\ ~IsZeroArray(last.ret)
    /\ IsZeroArray(ColumnDots(last.args[1], last.ret))

\* C15: on SpecialHermitianPositiveDefinite, for every point X of the
\* manifold and every ambient matrix V, P = projection(X, V) is Hermitian and
\* trace(solve(X, P)) is zero in each product index, for k = 1 and for k > 1.
C15_ProjectionOnHyperplane ==
    (last.op = "projection" /\ Receiver.cls = "SpecialHermitianPositiveDefinite")
        => /\ ArrayEqual(multihconj(last.ret), last.ret)
           /\ IsZeroArray(np_trace(np_linalg_solve(last.args[1], last.ret)))

\* A projection at a point other than the identity, in a product of more
\* than one matrix, of a matrix that is not Hermitian and whose Hermitian
\* part is off the hyperplane.
C15_Witness ==
    /\ last.op = "projection"
    /\ Receiver.cls = "SpecialHermitianPositiveDefinite"
    /\ Receiver.k > 1 /\ Receiver.n > 1
    /\ ArrayDiffer(multihconj(last.args[2]), last.args[2])
    /\ ArrayDiffer(last.ret, multiherm(last.args[2]))
    /\ ArrayDiffer(last.args[1], np_mul(last.args[1], last.args[1]))
    /\ C15_ProjectionOnHyperplane

\* The columns of the sum point_a + point_b that are zero: the columns in
\* which the two points are antipodal.
AntipodalColumns(point_a, point_b) ==
    {c \in 1..point_a.shape[2] : CIsZero(np_linalg_norm_axis0(np_add(point_a, point_b)).data[c])}

\* Every column of the array has norm exactly one.
UnitColumns(a) ==
    /\ ~Raised(a)
    /\ \A c \in 1..a.shape[2] : np_linalg_norm_axis0(a).data[c] = I2C(1)

\* C16: on Oblique, for any two points X and Y of the manifold,
\* Z = pair_mean(X, Y) has unit-norm columns and dist(X, Z) equals dist(Y, Z).
C16_PairMeanEquidistant ==
    (last.op = "pair_mean" /\ Receiver.cls = "Oblique")
        => /\ UnitColumns(last.ret)
           /\ ArrayEqual(Oblique_dist_XY(Receiver, last.args[1], last.ret),
                         Oblique_dist_XY(Receiver, last.args[2], last.ret))

\* C16, amended: when no column of X is the negative of the same column of Y,
\* Z = pair_mean(X, Y) has unit-norm columns and the column inner products
\* that dist takes the arccos of are the same for (X, Z) and (Y, Z), so
\* dist(X, Z) equals dist(Y, Z).  A column in which X and Y are antipodal is
\* nan in Z.
C16_PairMeanAmended ==
    (last.op = "pair_mean" /\ Receiver.cls = "Oblique")
        => /\ AntipodalColumns(last.args[1], last.args[2]) = {}
                => /\ UnitColumns(last.ret)
                   /\ ArrayEqual(Oblique_dist_XY(Receiver, last.args[1], last.ret),
                                 Oblique_dist_XY(Receiver, last.args[2], last.ret))
           /\ \A c \in AntipodalColumns(last.args[1], last.args[2]) :
                 \A r \in 1..last.ret.shape[1] :
                    IsNaN(At(last.ret, <<r - 1, c - 1>>).re)

\* The mean of two different points with no antipodal column, which is
\* neither of them.
C16_Witness ==
    /\ last.op = "pair_mean"
    /\ Receiver.cls = "Oblique"
    /\ AntipodalColumns(last.args[1], last.args[2]) = {}
    /\ ArrayDiffer(last.args[1], last.args[2])
    /\ ArrayDiffer(last.ret, last.args[1])
    /\ ArrayDiffer(last.ret, last.args[2])
    /\ UnitColumns(last.ret)

\* The leading principal j x j block of the matrix M.
Leading(M, j) == [r \in 1..j |-> [c \in 1..j |-> M[r][c]]]

\* Every matrix of the stack a is symmetric (Hermitian) with positive leading
\* principal minors.
IsPositiveDefinite(a) ==
    /\ ArrayEqual(multihconj(a), a)
    /\ \A i \in 0..(Prod(Batch(a)) - 1) :
          \A j \in 1..Rows(a) : Gt(Det(Leading(Mat(a, i), j)).re, Int2R(0))

\* C17: on the positive-definite family, log(point_a, point_b) and
\* dist(point_a, point_b) raise a linear-algebra error whenever point_a or
\* point_b is not positive definite; they return no value then.
C17_LogDistFailFast ==
    (/\ last.op \in {"log", "dist"}
     /\ Receiver.cls \in PositiveDefiniteFamily
     /\ ~IsPositiveDefinite(last.args[1]) \/ ~IsPositiveDefinite(last.args[2]))
        => last.ret.exc = "LinAlgError"

\* point_a and point_b are points of the manifold self, and point_b is in
\* the injectivity domain of exp at point_a: on Oblique no column of point_b
\* is antipodal to the same column of point_a.
InInjectivityDomain(self, point_a, point_b) ==
    CASE self.cls = "Oblique" -> AntipodalColumns(point_a, point_b) = {}
      [] self.cls = "Positive" -> TRUE
      [] OTHER -> IsPositiveDefinite(point_a) /\ IsPositiveDefinite(point_b)

\* The array x is returned and no element of it is known to differ from y's.
AgreesWith(x, y) == ~Raised(x) /\ ~ArrayDiffer(x, y)

C19_ParallelTransportIsometry ==
    (/\ last.op = "transport"
     /\ Receiver.cls = "Positive"
     /\ ctor[last.slot].use_parallel_transport)
        => /\ \A V \in Vectors(Receiver) :
                 ArrayEqual(
                     Positive_inner_product(
                         Receiver, last.args[2], last.ret,
                         transport(Receiver, last.args[1], last.args[2], V)),
                     Positive_inner_product(Receiver, last.args[1], last.args[3], V))
           /\ ArrayEqual(transport(Receiver, last.args[2], last.args[1], last.ret),
                         last.args[3])

\* A parallel transport between two different points that changed the
\* vector, whose squared norm is not zero, and that transports back to it.
C19_Witness ==
    /\ last.op = "transport"
    /\ Receiver.cls = "Positive"
    /\ ctor[last.slot].use_parallel_transport
    /\ Receiver.k > 1
    /\ ArrayDiffer(last.args[1], last.args[2])
    /\ ArrayDiffer(last.ret, last.args[3])
    /\ ~IsZeroArray(Positive_inner_product(Receiver, last.args[1], last.args[3],
                                           last.args[3]))
    /\ ArrayEqual(Positive_inner_product(Receiver, last.args[2], last.ret, last.ret),
                  Positive_inner_product(Receiver, last.args[1], last.args[3],
                                         last.args[3]))
    /\ ArrayEqual(transport(Receiver, last.args[2], last.args[1], last.ret),
                  last.args[3])

=============================================================================
